---------------------------- MODULE Spec2Model ----------------------------
(***************************************************************************)
(* Verification model of the Paillier / Catalano-Fiore / KEA / ExactMatch  *)
(* library and of its thread-safe key registry.                            *)
(*                                                                         *)
(* The cryptographic primitives are pure functions of their inputs and of  *)
(* the randomness they sample; each is an operator that takes the sampled  *)
(* value as an argument, and the action that applies it draws that value   *)
(* with \E.  Big integers are scaled down to moduli built from the safe    *)
(* primes 5, 7 and 11, so that every product stays below 2^31.             *)
(*                                                                         *)
(* A call ends in one of three ways: Ok(v), Err(e), or a panic (an abort   *)
(* of the calling thread, as BigUint subtraction does on underflow).       *)
(***************************************************************************)
EXTENDS Integers, Sequences, FiniteSets, TLC

VARIABLES
    (* demonstration_paillier / p_encrypt / p_decrypt *)
    kp,         \* the key pair in use (charger_ou_generer_cles)
    pc,         \* position in the scenario being run
    m1, m2,     \* plaintexts
    c1, c2,     \* Paillier ciphertexts (results of p_encrypt)
    c_somme,    \* (c1 * c2) mod n^2
    dec,        \* result of p_decrypt
    (* demonstration_catalano_fiore *)
    b1, b2,     \* masks
    cf1, cf2,   \* first-form ciphertexts (results of cf_encrypt)
    forme1,     \* result of cf_add
    dec_add,    \* result of cf_add_dec
    forme2,     \* result of cf_mul
    dec_mul,    \* result of cf_mul_dec
    (* KEA layer *)
    kea,        \* the KeyPairKEA (result of paillier_kea_keygen)
    r0, r1,     \* the randomness paillier_kea_encrypt sampled
    ct,         \* the KEA ciphertext (c0, c1) handed to paillier_kea_decrypt
    kea_dec,    \* result of paillier_kea_decrypt
    (* exactmatch (PSI) *)
    kp1, kp2,       \* the key pairs of BD1 and BD2
    nss_a, nss_b,   \* the identifier lists of BD1 and BD2
    table1, table2, \* SparseTable.active of BD1 and BD2
    bd1, bd2,       \* the DualFtBundle of BD1 and BD2
    agg_bd1, agg_bd2, \* the two lists phase3_server_compute returns
    count1, count2, \* the results of phase4_decrypt_and_count
    (* KeyRegistry *)
    inner,      \* the RegistryState behind the RwLock: keypair and kea slots
    lock,       \* the RwLock: the threads holding a write / a read guard
    tpc,        \* each thread's position in the registry call it is making
    call,       \* each thread's current (or last) call and its arguments
    seen,       \* what each thread has read under its guard so far
    ret,        \* what each thread's last call returned to its caller
    (* generate_safe_prime / p_keygen on full-width integers *)
    nbits,          \* the key size asked of p_keygen
    sophie_germain, \* the candidate p' of the last sampling round
    safe_p, safe_q, \* the results of the two generate_safe_prime calls
    n_pq,           \* n = p * q
    (* key_storage *)
    file,       \* the key file: its length in bytes and its KeyPairJson
    hex,        \* the result of hex_to_biguint on each field of the file
    loaded,     \* the result of the load made from the file
    (* the buffers of secret BigUint values *)
    heap,       \* each allocation: the digits it holds and whether it is released
    owned,      \* each owner's SecretKey or KeyPairKEA, as references into heap
    (* mod_inverse *)
    mi_a, mi_n, \* the arguments a and n of a call of mod_inverse
    mi_result   \* what the call returned

demoVars == <<kp, pc, m1, m2, c1, c2, c_somme, dec>>
cfVars == <<b1, b2, cf1, cf2, forme1, dec_add, forme2, dec_mul>>
keaVars == <<kea, r0, r1, ct, kea_dec>>
psiVars == <<kp1, kp2, nss_a, nss_b, table1, table2, bd1, bd2,
             agg_bd1, agg_bd2, count1, count2>>
regVars == <<inner, lock, tpc, call, seen, ret>>
genVars == <<nbits, sophie_germain, safe_p, safe_q, n_pq>>
storVars == <<file, hex, loaded>>
memVars == <<heap, owned>>
mathVars == <<mi_a, mi_n, mi_result>>
vars == <<demoVars, cfVars, keaVars, psiVars, regVars, genVars, storVars, memVars, mathVars>>

-----------------------------------------------------------------------------
(* Results of fallible calls.                                              *)

Ok(v)  == [tag |-> "Ok", val |-> v]
Err(e) == [tag |-> "Err", err |-> e]
Panic  == [tag |-> "Panic"]
None   == [tag |-> "None"]

IsOk(r) == r.tag = "Ok"
IsErr(r, e) == r.tag = "Err" /\ r.err = e

-----------------------------------------------------------------------------
(* BigInt math helpers (paillier/math/math.rs).                            *)

RECURSIVE gcd(_, _)
gcd(a, b) == IF b = 0 THEN a ELSE gcd(b, a % b)

(* Mutant of lcm: the product is not divided by the gcd.                   *)
lcm_without_gcd(a, b) == a * b

lcm(a, b) == (a * b) \div gcd(a, b)

RECURSIVE bits(_)
bits(x) == IF x = 0 THEN 0 ELSE 1 + bits(x \div 2)

RECURSIVE Pow2(_)
Pow2(k) == IF k = 0 THEN 1 ELSE 2 * Pow2(k - 1)

(* BigUint::modpow: square and multiply, every product reduced mod m.      *)
RECURSIVE modpow(_, _, _)
modpow(b, e, m) ==
    IF e = 0 THEN 1 % m
    ELSE LET h == modpow(b, e \div 2, m)
             s == (h * h) % m
         IN  IF e % 2 = 1 THEN (s * (b % m)) % m ELSE s

(* l_function: (u - 1) / n on BigUint; the subtraction panics when u = 0.  *)
l_function_panics(u) == u < 1
l_function(u, n) == (u - 1) \div n

(* Rust's % on BigInt: the remainder has the sign of the dividend.         *)
RustRem(x, n) == IF x >= 0 THEN x % n ELSE 0 - ((0 - x) % n)

(* extended_gcd: the loop of lines 247-261 on (old_r, r, old_s, s); the    *)
(* t coefficients are computed by the code and dropped by its only caller. *)
RECURSIVE egcd_loop(_, _, _, _)
egcd_loop(old_r, r, old_s, s) ==
    IF r = 0 THEN <<old_r, old_s>>
    ELSE LET quotient == old_r \div r
         IN  egcd_loop(r, old_r - quotient * r, s, old_s - quotient * s)

extended_gcd(a, b) == egcd_loop(a, b, 1, 0)

(* BigInt::to_biguint().ok_or(NegativeConversion).                        *)
to_biguint(x) == IF x < 0 THEN Err("NegativeConversion") ELSE Ok(x)

(* Mutant of add_if_negative: a negative remainder is left as it is.       *)
add_if_negative_never(x_mod, n) == x_mod

(* if x_mod < 0 { x_mod += n }.                                            *)
add_if_negative(x_mod, n) == IF x_mod < 0 THEN x_mod + n ELSE x_mod

mod_inverse(a, n) ==
    LET gx == extended_gcd(a, n)
    IN  IF gx[1] # 1 THEN Err("NoModularInverse")
        ELSE to_biguint(add_if_negative(RustRem(gx[2], n), n))

-----------------------------------------------------------------------------
(* Key generation (paillier/p_keygen/p_keygen.rs).                         *)

(* The safe primes generate_safe_prime returns in the scaled-down model.   *)
SafePrimes == {5, 7, 11}

(* p_keygen from the point where the two distinct safe primes are drawn.   *)
p_keygen(p, q) ==
    LET n == p * q
        n_squared == n * n
        p_minus_1 == p - 1
        q_minus_1 == q - 1
        phi_n == p_minus_1 * q_minus_1
        lambda == lcm(p_minus_1, q_minus_1)
        g == n + 1
        g_lambda == (1 + lambda * n) % n_squared
        l_g_lambda == l_function(g_lambda, n)
        mu == mod_inverse(l_g_lambda, n)
    IN  IF gcd(n, phi_n) # 1 THEN Err("NoModularInverse")
        ELSE IF gcd(l_g_lambda, n) # 1 THEN Err("NoModularInverse")
        ELSE IF ~IsOk(mu) THEN mu
        ELSE Ok([public_key |-> [n |-> n, g |-> g, n_squared |-> n_squared],
                 secret_key |-> [lambda |-> lambda, mu |-> mu.val]])

(* Every key pair p_keygen can return.                                     *)
KeyPairs ==
    {p_keygen(pq[1], pq[2]).val :
        pq \in {x \in SafePrimes \X SafePrimes :
                    x[1] # x[2] /\ IsOk(p_keygen(x[1], x[2]))}}

-----------------------------------------------------------------------------
(* Full-width BigUint arithmetic.  Where the width of the integers is the  *)
(* point (key sizes, hex fields), a BigUint is the set of the positions of *)
(* its 1 bits, bit 0 the least significant; zero is the empty set.         *)

(* BigUint::bits: the position of the highest 1 bit, plus one.             *)
big_bits(x) == IF x = {} THEN 0 ELSE (CHOOSE k \in x : \A j \in x : j <= k) + 1

(* BigUint::set_bit(k, true).                                              *)
set_bit(x, k) == x \cup {k}

(* x << 1.                                                                 *)
shl1(x) == {k + 1 : k \in x}

(* The lowest 0 bit of x: where the carry of x + 1 stops.                  *)
lowest_clear(x) == CHOOSE c \in 0..big_bits(x) : c \notin x /\ \A j \in 0..(c - 1) : j \in x

(* x + BigUint::one().                                                     *)
big_add_one(x) == {k \in x : k > lowest_clear(x)} \cup {lowest_clear(x)}

(* a * b, column by column: column k adds the carry to the number of       *)
(* pairs of 1 bits whose positions sum to k.  The columns are taken in     *)
(* blocks of 32, one block per call of mul_block, which returns the bits   *)
(* of its columns and the carry out of the last one.                       *)
column_sum(a, b, k, carry) == Cardinality({i \in a : (k - i) \in b}) + carry

with_column(k, sum, rest) ==
    [bits |-> (IF sum % 2 = 1 THEN {k} ELSE {}) \cup rest.bits, carry |-> rest.carry]

RECURSIVE mul_block(_, _, _, _, _)
mul_block(a, b, k, stop, carry) ==
    IF k >= stop THEN [bits |-> {}, carry |-> carry]
    ELSE with_column(k, column_sum(a, b, k, carry),
                     mul_block(a, b, k + 1, stop, column_sum(a, b, k, carry) \div 2))

RECURSIVE mul_columns(_, _, _, _, _)
after_block(a, b, k, top, block) ==
    block.bits \cup mul_columns(a, b, k + 32, top, block.carry)

mul_columns(a, b, k, top, carry) ==
    IF k > top THEN {}
    ELSE after_block(a, b, k, top,
                     mul_block(a, b, k, IF k + 32 > top THEN top + 1 ELSE k + 32, carry))

big_mul(a, b) == mul_columns(a, b, 0, big_bits(a) + big_bits(b), 0)

-----------------------------------------------------------------------------
(* generate_safe_prime and the head of p_keygen (paillier/math/math.rs,    *)
(* paillier/p_keygen/p_keygen.rs) on full-width integers.                  *)

MIN_KEY_BITS == 128

KeySizeTooSmall(requested, minimum) ==
    [kind |-> "KeySizeTooSmall", requested |-> requested, minimum |-> minimum]

(* Mutant of candidate: bit nbits-3 is not forced.                         *)
candidate_without_second_bit(nb, random_bits) ==
    set_bit(set_bit(random_bits, nb - 2), 0)

(* The candidate p' of one round: the nbits-1 random bits of gen_biguint   *)
(* with bits nbits-2, nbits-3 and 0 set.                                   *)
candidate(nb, random_bits) ==
    set_bit(set_bit(set_bit(random_bits, nb - 2), nb - 3), 0)

(* Mutant of generate_safe_prime: only the structural minimum of 4 bits    *)
(* is enforced.                                                            *)
generate_safe_prime_min_4(nb, random_bits) ==
    IF nb < 4 THEN Err(KeySizeTooSmall(nb, 4))
    ELSE Ok(big_add_one(shl1(candidate(nb, random_bits))))

(* generate_safe_prime, given the random bits of the round on which its    *)
(* loop returns.  The sieve and the Miller-Rabin tests only decide which   *)
(* round that is: any candidate is taken to be able to pass them.          *)
generate_safe_prime(nb, random_bits) ==
    IF nb < MIN_KEY_BITS THEN Err(KeySizeTooSmall(nb, MIN_KEY_BITS))
    ELSE IF nb < 4 THEN Err(KeySizeTooSmall(nb, 4))
    ELSE Ok(big_add_one(shl1(candidate(nb, random_bits))))

-----------------------------------------------------------------------------
(* Key files (key_management/key_storage.rs).  A hex field is the sequence *)
(* of its characters; the integers are full-width.                         *)

MAX_KEY_FILE_BYTES == 32768
MAX_HEX_FIELD_LEN == 3072

HexUpper == <<"0", "1", "2", "3", "4", "5", "6", "7", "8", "9",
              "A", "B", "C", "D", "E", "F">>
HexLower == <<"0", "1", "2", "3", "4", "5", "6", "7", "8", "9",
              "a", "b", "c", "d", "e", "f">>

(* The value of a character as a digit; 255 for a character that is not a  *)
(* hexadecimal digit.                                                      *)
digit_value(ch) ==
    IF \E d \in 1..16 : HexUpper[d] = ch
    THEN (CHOOSE d \in 1..16 : HexUpper[d] = ch) - 1
    ELSE IF \E d \in 1..16 : HexLower[d] = ch
    THEN (CHOOSE d \in 1..16 : HexLower[d] = ch) - 1
    ELSE 255

(* The 1 bits of digit d, shifted left by sh.                              *)
digit_bits(d, sh) == {sh + b : b \in {b \in 0..3 : (d \div Pow2(b)) % 2 = 1}}

(* BigUint::from_str_radix(s, 16) on a string of digits and other          *)
(* characters: an error for the empty string and for any character that is *)
(* not a digit below 16, else the value, most significant digit first.     *)
from_str_radix(s) ==
    IF Len(s) = 0 THEN Err("ParseBigIntError")
    ELSE IF \E i \in 1..Len(s) : digit_value(s[i]) >= 16 THEN Err("ParseBigIntError")
    ELSE Ok(UNION {digit_bits(digit_value(s[i]), 4 * (Len(s) - i)) : i \in 1..Len(s)})

(* The CryptoError values of key_storage, and the message of the I/O       *)
(* error of check_file_size.                                               *)
HexParseError == [kind |-> "HexParseError"]
KeyCoherenceError == [kind |-> "KeyCoherenceError"]
FileTooLarge == [kind |-> "file too large"]

HexFieldTooLong(actual, maximum) ==
    [kind |-> "HexFieldTooLong", actual |-> actual, maximum |-> maximum]

(* .map_err(|_| CryptoError::HexParseError).                               *)
map_err_hex(res) == IF IsOk(res) THEN res ELSE Err(HexParseError)

(* Mutant of hex_to_biguint: the length test is off by one.                *)
hex_to_biguint_off_by_one(hex_str) ==
    IF Len(hex_str) >= MAX_HEX_FIELD_LEN
    THEN Err(HexFieldTooLong(Len(hex_str), MAX_HEX_FIELD_LEN))
    ELSE map_err_hex(from_str_radix(hex_str))

hex_to_biguint(hex_str) ==
    IF Len(hex_str) > MAX_HEX_FIELD_LEN
    THEN Err(HexFieldTooLong(Len(hex_str), MAX_HEX_FIELD_LEN))
    ELSE map_err_hex(from_str_radix(hex_str))

(* The end of json_to_public_key, once the three fields are parsed.        *)
coherent_public_key(n, g, n_squared) ==
    IF n_squared # big_mul(n, n) THEN Err(KeyCoherenceError)
    ELSE Ok([n |-> n, g |-> g, n_squared |-> n_squared])

(* Mutant of json_to_public_key: the coherence test is left out.           *)
json_to_public_key_unchecked(json) ==
    IF ~IsOk(hex_to_biguint(json.n)) THEN hex_to_biguint(json.n)
    ELSE IF ~IsOk(hex_to_biguint(json.g)) THEN hex_to_biguint(json.g)
    ELSE IF ~IsOk(hex_to_biguint(json.n_squared)) THEN hex_to_biguint(json.n_squared)
    ELSE Ok([n |-> hex_to_biguint(json.n).val, g |-> hex_to_biguint(json.g).val,
             n_squared |-> hex_to_biguint(json.n_squared).val])

(* json_to_public_key: each `?` returns the first error.                   *)
json_to_public_key(json) ==
    IF ~IsOk(hex_to_biguint(json.n)) THEN hex_to_biguint(json.n)
    ELSE IF ~IsOk(hex_to_biguint(json.g)) THEN hex_to_biguint(json.g)
    ELSE IF ~IsOk(hex_to_biguint(json.n_squared)) THEN hex_to_biguint(json.n_squared)
    ELSE coherent_public_key(hex_to_biguint(json.n).val, hex_to_biguint(json.g).val,
                             hex_to_biguint(json.n_squared).val)

json_to_secret_key(json) ==
    IF ~IsOk(hex_to_biguint(json.lambda)) THEN hex_to_biguint(json.lambda)
    ELSE IF ~IsOk(hex_to_biguint(json.mu)) THEN hex_to_biguint(json.mu)
    ELSE Ok([lambda |-> hex_to_biguint(json.lambda).val,
             mu |-> hex_to_biguint(json.mu).val])

json_to_keypair(json) ==
    IF ~IsOk(json_to_public_key(json.public_key)) THEN json_to_public_key(json.public_key)
    ELSE IF ~IsOk(json_to_secret_key(json.secret_key))
    THEN json_to_secret_key(json.secret_key)
    ELSE Ok([public_key |-> json_to_public_key(json.public_key).val,
             secret_key |-> json_to_secret_key(json.secret_key).val])

(* io::Error::new(io::ErrorKind::InvalidData, msg); msg is kept as the     *)
(* error it is the text of.                                                *)
InvalidData(msg) == Err([io |-> "InvalidData", msg |-> msg])

(* check_file_size on the length the metadata reports.                     *)
check_file_size(len) ==
    IF len > MAX_KEY_FILE_BYTES THEN InvalidData(FileTooLarge) ELSE Ok(<<>>)

(* .map_err(|e| io::Error::new(io::ErrorKind::InvalidData, e.to_string())) *)
map_err_io(res) == IF IsOk(res) THEN res ELSE InvalidData(res.err)

(* load_keypair_json on a file that holds a well-formed KeyPairJson.       *)
load_keypair_json(f) ==
    IF ~IsOk(check_file_size(f.len)) THEN check_file_size(f.len)
    ELSE map_err_io(json_to_keypair(f.json))

(* load_public_key_json on a file that holds a well-formed PublicKeyJson.  *)
load_public_key_json(f) ==
    IF ~IsOk(check_file_size(f.len)) THEN check_file_size(f.len)
    ELSE map_err_io(json_to_public_key(f.json.public_key))

(* The hexadecimal digit of value at position j, position 0 the lowest.    *)
nibble(value, j) ==
    (IF 4 * j \in value THEN 1 ELSE 0) + (IF 4 * j + 1 \in value THEN 2 ELSE 0)
    + (IF 4 * j + 2 \in value THEN 4 ELSE 0) + (IF 4 * j + 3 \in value THEN 8 ELSE 0)

(* BigUint::to_str_radix(16): lower-case digits, the most significant      *)
(* first, none of them a leading zero; "0" for zero.                       *)
hex_digits(value, len) == [i \in 1..len |-> HexLower[nibble(value, len - i) + 1]]

to_str_radix(value) ==
    IF value = {} THEN <<"0">> ELSE hex_digits(value, (big_bits(value) + 3) \div 4)

(* str::to_uppercase on a string of hexadecimal digits.                    *)
to_uppercase(str) == [i \in 1..Len(str) |-> HexUpper[digit_value(str[i]) + 1]]

biguint_to_hex(value) == to_uppercase(to_str_radix(value))

public_key_to_json(pk) ==
    [n |-> biguint_to_hex(pk.n), g |-> biguint_to_hex(pk.g),
     n_squared |-> biguint_to_hex(pk.n_squared)]

(* Mutant of secret_key_to_json: lambda and mu are written to each other's *)
(* field.                                                                  *)
secret_key_to_json_swapped(sk) ==
    [lambda |-> biguint_to_hex(sk.mu), mu |-> biguint_to_hex(sk.lambda)]

secret_key_to_json(sk) ==
    [lambda |-> biguint_to_hex(sk.lambda), mu |-> biguint_to_hex(sk.mu)]

keypair_to_json(keypair) ==
    [public_key |-> public_key_to_json(keypair.public_key),
     secret_key |-> secret_key_to_json(keypair.secret_key)]

(* The characters serde_json::to_string_pretty writes around the five      *)
(* field values of a KeyPairJson: braces, indentation, names, quotes.      *)
PRETTY_OVERHEAD == 125

(* save_keypair_json: the file that fs::write leaves on disk.              *)
save_keypair_json(keypair) ==
    [len |-> PRETTY_OVERHEAD
             + Len(keypair_to_json(keypair).public_key.n)
             + Len(keypair_to_json(keypair).public_key.g)
             + Len(keypair_to_json(keypair).public_key.n_squared)
             + Len(keypair_to_json(keypair).secret_key.lambda)
             + Len(keypair_to_json(keypair).secret_key.mu),
     json |-> keypair_to_json(keypair)]

-----------------------------------------------------------------------------
(* Paillier encryption and decryption.                                     *)

(* Mutant of Units: r is sampled below n without the gcd test.             *)
Units_unchecked(n) == 0..(n - 1)

(* The values the rejection loop of p_encrypt can leave in r.              *)
Units(n) == {r \in 1..(n - 1) : gcd(r, n) = 1}

(* Mutant of p_encrypt: r^n reduced modulo n instead of n^2.                *)
p_encrypt_mod_n(m, r, pk) ==
    IF m >= pk.n THEN Err("MessageOutOfRange")
    ELSE LET g_m == modpow(pk.g, m, pk.n_squared)
             r_n == modpow(r, pk.n, pk.n)
         IN  Ok((g_m * r_n) % pk.n_squared)

(* p_encrypt with the sampled r made explicit.                             *)
p_encrypt(m, r, pk) ==
    IF m >= pk.n THEN Err("MessageOutOfRange")
    ELSE LET g_m == modpow(pk.g, m, pk.n_squared)
             r_n == modpow(r, pk.n, pk.n_squared)
         IN  Ok((g_m * r_n) % pk.n_squared)

(* Mutant of p_decrypt: the multiplication by mu is left out.              *)
p_decrypt_without_mu(c, pk, sk) ==
    IF c >= pk.n_squared THEN Err("CiphertextOutOfRange")
    ELSE LET c_lambda == modpow(c, sk.lambda, pk.n_squared)
         IN  IF l_function_panics(c_lambda) THEN Panic
             ELSE Ok(l_function(c_lambda, pk.n) % pk.n)

p_decrypt(c, pk, sk) ==
    IF c >= pk.n_squared THEN Err("CiphertextOutOfRange")
    ELSE LET c_lambda == modpow(c, sk.lambda, pk.n_squared)
         IN  IF l_function_panics(c_lambda) THEN Panic
             ELSE Ok((l_function(c_lambda, pk.n) * sk.mu) % pk.n)

-----------------------------------------------------------------------------
(* The "Karatsuba/Montgomery" helper (montgomery/montgomery.rs).           *)

KARATSUBA_MIN_BITS == 64

Max(a, b) == IF a >= b THEN a ELSE b

(* Result::unwrap_or_default on a BigUint: 0 when the result is an error.  *)
unwrap_or_default(res) == IF IsOk(res) THEN res.val ELSE 0

(* montgomery_reduce: (t * R^-1) mod n with R = 2^bits(n); R^-1 is 0 when  *)
(* the inverse does not exist.                                             *)
montgomery_reduce(t, n) ==
    (t * unwrap_or_default(mod_inverse(Pow2(bits(n)), n))) % n

(* The recombination of karatsuba_mul from the three reduced products;     *)
(* its BigUint subtractions panic when the subtrahend is the larger        *)
(* operand.                                                                *)
recombine(z0, z1a, z2, n, k) ==
    IF z1a + n + n < z0 \/ ((z1a + n + n - z0) % n) < z2 THEN Panic
    ELSE Ok((z2 * Pow2(2 * k)
             + ((((z1a + n + n - z0) % n) - z2 + n) % n) * Pow2(k) + z0) % n)

(* karatsuba_mul: schoolbook (a * b) mod n below 64 bits; above, the       *)
(* three-product recombination.                                            *)
karatsuba_mul(a, b, n) ==
    IF bits(a) < KARATSUBA_MIN_BITS \/ bits(b) < KARATSUBA_MIN_BITS
    THEN Ok((a * b) % n)
    ELSE LET k == Max(bits(a), bits(b)) \div 2
             base == Pow2(k)
             a_high == a \div base
             a_low == a % base
             b_high == b \div base
             b_low == b % base
         IN  recombine(montgomery_reduce(a_low * b_low, n),
                       montgomery_reduce((a_low + a_high) * (b_low + b_high), n),
                       montgomery_reduce(a_high * b_high, n), n, k)

(* multiple_precision_mul: the product is reduced modulo pk.n.             *)
multiple_precision_mul(a, b, pk) == karatsuba_mul(a, b, pk.n)

-----------------------------------------------------------------------------
(* Catalano-Fiore lifting (fiore_catalano/).                               *)

(* cf_encrypt with the r sampled by its p_encrypt made explicit.           *)
cf_encrypt(message, masque, r, pk) ==
    IF message >= pk.n THEN Err("MessageOutOfRange")
    ELSE LET m == message % pk.n
             rr == masque % pk.n
             c0 == (IF m >= rr THEN m - rr ELSE m + pk.n - rr) % pk.n
             enc == p_encrypt(rr, r, pk)
         IN  IF ~IsOk(enc) THEN enc ELSE Ok(<<c0, enc.val>>)

(* cf_add: the second component goes through multiple_precision_mul,       *)
(* whose result is unwrapped and then reduced modulo n_squared.            *)
cf_add(ciphert0, ciphert1, n, n_squared) ==
    LET pk == [n |-> n, g |-> 0, n_squared |-> n_squared]
        c0_snd == (ciphert0[1] + ciphert1[1]) % pk.n
        prod == multiple_precision_mul(ciphert0[2], ciphert1[2], pk)
    IN  IF ~IsOk(prod) THEN Panic
        ELSE Ok(<<c0_snd, prod.val % pk.n_squared>>)

cf_add_dec(ciphert, pk, sk) ==
    LET dec_masque == p_decrypt(ciphert[2], pk, sk)
    IN  IF ~IsOk(dec_masque) THEN dec_masque
        ELSE Ok((ciphert[1] + dec_masque.val) % pk.n)

(* cf_mul with the r sampled by its p_encrypt made explicit.  c1c0_p is    *)
(* computed and never used; c1_pc0 enters the product twice.               *)
cf_mul(ciphert, ciphert1, r, pk) ==
    LET c_0 == ciphert[1]
        c_1 == ciphert[2]
        c_0p == ciphert1[1]
        c_1p == ciphert1[2]
        product_c0 == multiple_precision_mul(c_0, c_0p, pk)
        enc_product == p_encrypt(product_c0.val, r, pk)
        c1c0_p == modpow(c_1, c_0p, pk.n_squared)
        c1_pc0 == modpow(c_1p, c_0, pk.n_squared)
        product_enc_c1c0_p == multiple_precision_mul(enc_product.val, c1_pc0, pk)
        c0_snd == multiple_precision_mul(product_enc_c1c0_p.val, c1_pc0, pk)
    IN  IF ~IsOk(product_c0) THEN product_c0
        ELSE IF ~IsOk(enc_product) THEN enc_product
        ELSE IF ~IsOk(product_enc_c1c0_p) THEN product_enc_c1c0_p
        ELSE IF ~IsOk(c0_snd) THEN c0_snd
        ELSE Ok(<<c0_snd.val, c_1, c_1p>>)

cf_mul_dec(ciphert, pk, sk) ==
    LET dec_c0 == p_decrypt(ciphert[1], pk, sk)
        dec_c1 == p_decrypt(ciphert[2], pk, sk)
        dec_c2 == p_decrypt(ciphert[3], pk, sk)
    IN  IF ~IsOk(dec_c0) THEN dec_c0
        ELSE IF ~IsOk(dec_c1) THEN dec_c1
        ELSE IF ~IsOk(dec_c2) THEN dec_c2
        ELSE Ok((dec_c0.val + dec_c1.val * dec_c2.val) % pk.n)

-----------------------------------------------------------------------------
(* KEA layer (paillier_kea/).                                              *)

(* The values paillier_kea_keygen can draw for psy: below 2^(bits(n)/2).   *)
PsyChoices(pk) == 0..(Pow2(bits(pk.n) \div 2) - 1)

(* paillier_kea_keygen with psy and the two encryption r made explicit.    *)
paillier_kea_keygen(pk, psy, r_one, r_psy) ==
    LET enc_one == p_encrypt(1, r_one, pk)
        enc_psy == p_encrypt(psy, r_psy, pk)
    IN  IF ~IsOk(enc_one) THEN enc_one
        ELSE IF ~IsOk(enc_psy) THEN enc_psy
        ELSE Ok([pk |-> pk, ct_delta |-> <<enc_one.val, enc_psy.val>>, psy |-> psy])

(* paillier_kea_encrypt with r0 and r1 (gen_biguint_below(n)) explicit.    *)
paillier_kea_encrypt(message, ra, rb, pk, ct_delta) ==
    LET r0_n == modpow(ra, pk.n, pk.n_squared)
        r1_n == modpow(rb, pk.n, pk.n_squared)
        first_component_kea == modpow(ct_delta[1], message, pk.n_squared)
        second_component_kea == modpow(ct_delta[2], message, pk.n_squared)
    IN  Ok(<<(first_component_kea * r0_n) % pk.n_squared,
             (second_component_kea * r1_n) % pk.n_squared>>)

(* Mutant of paillier_kea_img_verif: psy is left out of the expected image. *)
paillier_kea_img_verif_without_psy(pk, sk, psy, c) ==
    LET mu_0 == p_decrypt(c[1], pk, sk)
        mu_1 == p_decrypt(c[2], pk, sk)
    IN  IF ~IsOk(mu_0) THEN mu_0
        ELSE IF ~IsOk(mu_1) THEN mu_1
        ELSE Ok((mu_0.val % pk.n) = mu_1.val)

paillier_kea_img_verif(pk, sk, psy, c) ==
    LET mu_0 == p_decrypt(c[1], pk, sk)
        mu_1 == p_decrypt(c[2], pk, sk)
    IN  IF ~IsOk(mu_0) THEN mu_0
        ELSE IF ~IsOk(mu_1) THEN mu_1
        ELSE Ok(((psy * mu_0.val) % pk.n) = mu_1.val)

paillier_kea_decrypt(pk, sk, psy, c) ==
    LET valid == paillier_kea_img_verif(pk, sk, psy, c)
    IN  IF ~IsOk(valid) THEN valid
        ELSE IF ~valid.val THEN Err("KeaImVerFailed")
        ELSE p_decrypt(c[1], pk, sk)

-----------------------------------------------------------------------------
(* Bounds on the values the scenarios draw.                                *)

MaxRand == 3    \* sampled randomness: the units of Z_n up to MaxRand
MaxMsg  == 6    \* sampled CF plaintexts: 0..MaxMsg, and n - 1
MaxMask == 2    \* sampled CF masks: 0..MaxMask, and n - 1
KeaMaxRand == 5 \* sampled r0, r1 of paillier_kea_encrypt: 0..KeaMaxRand
MaxCt   == 6    \* forged ciphertext components: 0..MaxCt, n^2 - 1 and n^2

RandSample(n) == {r \in Units(n) : r <= MaxRand}
MsgSample(n)  == {m \in 0..(n - 1) : m <= MaxMsg \/ m = n - 1}
MaskSample(n) == {b \in 0..(n - 1) : b <= MaxMask \/ b = n - 1}

KeaRandSample(n) == {r \in 0..(n - 1) : r <= KeaMaxRand}
CtSample(pk) == (0..MaxCt) \cup {pk.n_squared - 1, pk.n_squared}

IdleDemo ==
    /\ m1 = None /\ m2 = None /\ c1 = None /\ c2 = None
    /\ c_somme = None /\ dec = None

IdleCF ==
    /\ b1 = None /\ b2 = None /\ cf1 = None /\ cf2 = None
    /\ forme1 = None /\ dec_add = None /\ forme2 = None /\ dec_mul = None

IdleKEA ==
    /\ kea = None /\ r0 = None /\ r1 = None /\ ct = None /\ kea_dec = None

IdlePSI ==
    /\ kp1 = None /\ kp2 = None /\ nss_a = None /\ nss_b = None
    /\ table1 = None /\ table2 = None /\ bd1 = None /\ bd2 = None
    /\ agg_bd1 = None /\ agg_bd2 = None /\ count1 = None /\ count2 = None

IdleReg ==
    /\ inner = None /\ lock = None /\ tpc = None /\ call = None
    /\ seen = None /\ ret = None

IdleGen ==
    /\ nbits = None /\ sophie_germain = None /\ safe_p = None /\ safe_q = None
    /\ n_pq = None

IdleStor ==
    /\ file = None /\ hex = None /\ loaded = None

IdleMem ==
    /\ heap = None /\ owned = None

IdleMath ==
    /\ mi_a = None /\ mi_n = None /\ mi_result = None

-----------------------------------------------------------------------------
(* Specification SpecPaillier: one encryption followed by its decryption,  *)
(* over every plaintext up to n and every r the sampling loop can return.  *)

InitPaillier ==
    /\ kp \in KeyPairs
    /\ pc = "start"
    /\ IdleDemo /\ IdleCF /\ IdleKEA /\ IdleGen /\ IdleStor /\ IdleMem /\ IdleMath /\ IdlePSI /\ IdleReg

Encrypt1 ==
    /\ pc = "start"
    /\ \E m \in 0..kp.public_key.n, r \in Units(kp.public_key.n) :
          /\ m1' = Ok(m)
          /\ c1' = p_encrypt(m, r, kp.public_key)
    /\ pc' = "encrypted"
    /\ UNCHANGED <<kp, m2, c2, c_somme, dec, cfVars, keaVars, psiVars, regVars, genVars, memVars, mathVars, storVars>>

Decrypt1 ==
    /\ pc = "encrypted"
    /\ IsOk(c1)
    /\ dec' = p_decrypt(c1.val, kp.public_key, kp.secret_key)
    /\ pc' = "decrypted"
    /\ UNCHANGED <<kp, m1, m2, c1, c2, c_somme, cfVars, keaVars, psiVars, regVars, genVars, memVars, mathVars, storVars>>

NextPaillier == Encrypt1 \/ Decrypt1

SpecPaillier == InitPaillier /\ [][NextPaillier]_vars

-----------------------------------------------------------------------------
(* Specification SpecHomomorphic: demonstration_paillier, step by step.    *)

InitHomomorphic ==
    /\ kp \in KeyPairs
    /\ pc = "hom_start"
    /\ IdleDemo /\ IdleCF /\ IdleKEA /\ IdleGen /\ IdleStor /\ IdleMem /\ IdleMath /\ IdlePSI /\ IdleReg

HomDraw ==
    /\ pc = "hom_start"
    /\ \E a \in 0..(kp.public_key.n - 1), b \in 0..(kp.public_key.n - 1) :
          m1' = Ok(a) /\ m2' = Ok(b)
    /\ pc' = "hom_drawn"
    /\ UNCHANGED <<kp, c1, c2, c_somme, dec, cfVars, keaVars, psiVars, regVars, genVars, memVars, mathVars, storVars>>

HomEncrypt ==
    /\ pc = "hom_drawn"
    /\ \E ra \in RandSample(kp.public_key.n), rb \in RandSample(kp.public_key.n) :
          /\ c1' = p_encrypt(m1.val, ra, kp.public_key)
          /\ c2' = p_encrypt(m2.val, rb, kp.public_key)
    /\ pc' = "hom_encrypted"
    /\ UNCHANGED <<kp, m1, m2, c_somme, dec, cfVars, keaVars, psiVars, regVars, genVars, memVars, mathVars, storVars>>

HomMultiply ==
    /\ pc = "hom_encrypted"
    /\ IsOk(c1) /\ IsOk(c2)
    /\ c_somme' = Ok((c1.val * c2.val) % kp.public_key.n_squared)
    /\ pc' = "hom_multiplied"
    /\ UNCHANGED <<kp, m1, m2, c1, c2, dec, cfVars, keaVars, psiVars, regVars, genVars, memVars, mathVars, storVars>>

HomDecrypt ==
    /\ pc = "hom_multiplied"
    /\ dec' = p_decrypt(c_somme.val, kp.public_key, kp.secret_key)
    /\ pc' = "hom_decrypted"
    /\ UNCHANGED <<kp, m1, m2, c1, c2, c_somme, cfVars, keaVars, psiVars, regVars, genVars, memVars, mathVars, storVars>>

NextHomomorphic == HomDraw \/ HomEncrypt \/ HomMultiply \/ HomDecrypt

SpecHomomorphic == InitHomomorphic /\ [][NextHomomorphic]_vars

-----------------------------------------------------------------------------
(* Specification SpecCF: demonstration_catalano_fiore, step by step.       *)

InitCF ==
    /\ kp \in KeyPairs
    /\ pc = "cf_start"
    /\ IdleDemo /\ IdleCF /\ IdleKEA /\ IdleGen /\ IdleStor /\ IdleMem /\ IdleMath /\ IdlePSI /\ IdleReg

CfEncrypt ==
    /\ pc = "cf_start"
    /\ \E ma \in MsgSample(kp.public_key.n), mb \in MsgSample(kp.public_key.n),
          ba \in MaskSample(kp.public_key.n), bb \in MaskSample(kp.public_key.n),
          ra \in RandSample(kp.public_key.n), rb \in RandSample(kp.public_key.n) :
          /\ m1' = Ok(ma) /\ m2' = Ok(mb)
          /\ b1' = Ok(ba) /\ b2' = Ok(bb)
          /\ cf1' = cf_encrypt(ma, ba, ra, kp.public_key)
          /\ cf2' = cf_encrypt(mb, bb, rb, kp.public_key)
    /\ pc' = "cf_encrypted"
    /\ UNCHANGED <<kp, c1, c2, c_somme, dec, forme1, dec_add, forme2, dec_mul, keaVars, psiVars, regVars, genVars, memVars, mathVars, storVars>>

CfAdd ==
    /\ pc = "cf_encrypted"
    /\ IsOk(cf1) /\ IsOk(cf2)
    /\ forme1' = cf_add(cf1.val, cf2.val, kp.public_key.n, kp.public_key.n_squared)
    /\ pc' = "cf_added"
    /\ UNCHANGED <<kp, m1, m2, c1, c2, c_somme, dec, keaVars, psiVars, regVars, genVars, memVars, mathVars, storVars>>
    /\ UNCHANGED <<b1, b2, cf1, cf2, dec_add, forme2, dec_mul>>

CfAddDec ==
    /\ pc = "cf_added"
    /\ IsOk(forme1)
    /\ dec_add' = cf_add_dec(forme1.val, kp.public_key, kp.secret_key)
    /\ pc' = "cf_add_decrypted"
    /\ UNCHANGED <<kp, m1, m2, c1, c2, c_somme, dec, keaVars, psiVars, regVars, genVars, memVars, mathVars, storVars>>
    /\ UNCHANGED <<b1, b2, cf1, cf2, forme1, forme2, dec_mul>>

CfMul ==
    /\ pc = "cf_add_decrypted"
    /\ \E r \in RandSample(kp.public_key.n) :
          forme2' = cf_mul(cf1.val, cf2.val, r, kp.public_key)
    /\ pc' = "cf_multiplied"
    /\ UNCHANGED <<kp, m1, m2, c1, c2, c_somme, dec, keaVars, psiVars, regVars, genVars, memVars, mathVars, storVars>>
    /\ UNCHANGED <<b1, b2, cf1, cf2, forme1, dec_add, dec_mul>>

CfMulDec ==
    /\ pc = "cf_multiplied"
    /\ IsOk(forme2)
    /\ dec_mul' = cf_mul_dec(forme2.val, kp.public_key, kp.secret_key)
    /\ pc' = "cf_mul_decrypted"
    /\ UNCHANGED <<kp, m1, m2, c1, c2, c_somme, dec, keaVars, psiVars, regVars, genVars, memVars, mathVars, storVars>>
    /\ UNCHANGED <<b1, b2, cf1, cf2, forme1, dec_add, forme2>>

NextCF == CfEncrypt \/ CfAdd \/ CfAddDec \/ CfMul \/ CfMulDec

SpecCF == InitCF /\ [][NextCF]_vars

-----------------------------------------------------------------------------
(* Specification SpecKEA: KEA key generation, then either an encryption    *)
(* (decrypted as is, or after its second component is replaced by a fresh  *)
(* Enc(1)) or a pair of arbitrary components, handed to the decryption.    *)

InitKEA ==
    /\ kp \in KeyPairs
    /\ pc = "kea_start"
    /\ IdleDemo /\ IdleCF /\ IdleKEA /\ IdleGen /\ IdleStor /\ IdleMem /\ IdleMath /\ IdlePSI /\ IdleReg

KeaKeygen ==
    /\ pc = "kea_start"
    /\ \E psy \in PsyChoices(kp.public_key),
          ra \in RandSample(kp.public_key.n), rb \in RandSample(kp.public_key.n) :
          kea' = paillier_kea_keygen(kp.public_key, psy, ra, rb)
    /\ pc' = "kea_ready"
    /\ UNCHANGED <<kp, m1, m2, c1, c2, c_somme, dec, cfVars, psiVars, regVars, genVars, memVars, mathVars, storVars, r0, r1, ct, kea_dec>>

KeaEncrypt ==
    /\ pc = "kea_ready"
    /\ IsOk(kea)
    /\ \E m \in MsgSample(kp.public_key.n),
          ra \in KeaRandSample(kp.public_key.n), rb \in KeaRandSample(kp.public_key.n) :
          /\ m1' = Ok(m)
          /\ r0' = Ok(ra) /\ r1' = Ok(rb)
          /\ ct' = paillier_kea_encrypt(m, ra, rb, kp.public_key, kea.val.ct_delta)
    /\ pc' = "kea_encrypted"
    /\ UNCHANGED <<kp, m2, c1, c2, c_somme, dec, cfVars, psiVars, regVars, genVars, memVars, mathVars, storVars, kea, kea_dec>>

(* The second component is replaced by a fresh Paillier encryption of 1.   *)
KeaTamper ==
    /\ pc = "kea_encrypted"
    /\ IsOk(ct)
    /\ \E r \in RandSample(kp.public_key.n) :
          LET enc_one == p_encrypt(1, r, kp.public_key)
          IN  /\ IsOk(enc_one)
              /\ ct' = Ok(<<ct.val[1], enc_one.val>>)
    /\ pc' = "kea_tampered"
    /\ UNCHANGED <<kp, m1, m2, c1, c2, c_somme, dec, cfVars, psiVars, regVars, genVars, memVars, mathVars, storVars, kea, r0, r1, kea_dec>>

(* A pair the caller did not obtain from paillier_kea_encrypt.             *)
KeaForge ==
    /\ pc = "kea_ready"
    /\ IsOk(kea)
    /\ \E x \in CtSample(kp.public_key), y \in CtSample(kp.public_key) :
          ct' = Ok(<<x, y>>)
    /\ pc' = "kea_forged"
    /\ UNCHANGED <<kp, m1, m2, c1, c2, c_somme, dec, cfVars, psiVars, regVars, genVars, memVars, mathVars, storVars, kea, r0, r1, kea_dec>>

KeaDecrypt ==
    /\ pc \in {"kea_encrypted", "kea_tampered", "kea_forged"}
    /\ IsOk(ct)
    /\ kea_dec' = paillier_kea_decrypt(kp.public_key, kp.secret_key,
                                        kea.val.psy, ct.val)
    /\ pc' = CASE pc = "kea_encrypted" -> "kea_decrypted"
              [] pc = "kea_tampered" -> "kea_tamper_decrypted"
              [] pc = "kea_forged" -> "kea_forged_decrypted"
    /\ UNCHANGED <<kp, m1, m2, c1, c2, c_somme, dec, cfVars, psiVars, regVars, genVars, memVars, mathVars, storVars, kea, r0, r1, ct>>

NextKEA == KeaKeygen \/ KeaEncrypt \/ KeaTamper \/ KeaForge \/ KeaDecrypt

SpecKEA == InitKEA /\ [][NextKEA]_vars

-----------------------------------------------------------------------------
(* Private set intersection (exactmatch/exactmatch.rs).                    *)

HASH_BITS == 30
TABLE_SIZE == Pow2(HASH_BITS)

(* simple_hash: h = (h << 7) - h + ch on wrapping u32, then masked to      *)
(* HASH_BITS bits.  2^HASH_BITS divides 2^32, so reducing every step       *)
(* modulo TABLE_SIZE gives the masked value of the wrapped computation.    *)
RECURSIVE simple_hash_from(_, _, _)
simple_hash_from(s, i, h) ==
    IF i > Len(s) THEN h
    ELSE simple_hash_from(s, i + 1, (h * 128 - h + s[i]) % TABLE_SIZE)

simple_hash(s) == simple_hash_from(s, 1, 0) % TABLE_SIZE

(* SparseTable::build: the set of positions of the identifiers.            *)
SparseTable_build(nss_list) ==
    {simple_hash(nss_list[i]) : i \in 1..Len(nss_list)}

(* SparseTable::common_positions: the positions of the smaller table that  *)
(* the bigger one contains, pushed in the HashSet's iteration order.       *)
common_positions(self, other) ==
    LET small == IF Cardinality(self) <= Cardinality(other) THEN self ELSE other
        big == IF Cardinality(self) <= Cardinality(other) THEN other ELSE self
    IN  {pos \in small : pos \in big}

(* The orders in which a HashSet may hand out its elements.                *)
IterationOrders(S) ==
    {o \in [1..Cardinality(S) -> S] : \A i, j \in DOMAIN o : i # j => o[i] # o[j]}

(* Mutant of make_ft_for_one: c0 = (n - b) mod n, the first form of 0.     *)
make_ft_for_zero(mask_b, r, keypair) ==
    IF ~IsOk(p_encrypt(mask_b, r, keypair.public_key)) THEN Panic
    ELSE Ok(<<(keypair.public_key.n - (mask_b % keypair.public_key.n))
                 % keypair.public_key.n,
              p_encrypt(mask_b, r, keypair.public_key).val>>)

(* make_ft_for_one with the r of p_encrypt made explicit.                  *)
make_ft_for_one(mask_b, r, keypair) ==
    LET n == keypair.public_key.n
        b_mod == mask_b % n
        c0 == (1 + n - b_mod) % n
        c_1 == p_encrypt(mask_b, r, keypair.public_key)
    IN  IF ~IsOk(c_1) THEN Panic ELSE Ok(<<c0, c_1.val>>)

(* phase2_prepare_dual_ft; draws1[pos] and draws2[pos] are the mask and    *)
(* the encryption randomness drawn for pos under pk1 and under pk2.        *)
phase2_prepare_dual_ft(table, keypair1, keypair2, draws1, draws2) ==
    LET ft_pk1 == [pos \in table |->
                      make_ft_for_one(draws1[pos].b, draws1[pos].r, keypair1)]
        ft_pk2 == [pos \in table |->
                      make_ft_for_one(draws2[pos].b, draws2[pos].r, keypair2)]
    IN  IF \E pos \in table : ~IsOk(ft_pk1[pos]) \/ ~IsOk(ft_pk2[pos])
        THEN Panic
        ELSE Ok([under_pk1 |-> [ft_by_pos |-> [pos \in table |-> ft_pk1[pos].val]],
                 under_pk2 |-> [ft_by_pos |-> [pos \in table |-> ft_pk2[pos].val]]])

(* phase3_server_compute; common is common_positions in the order it was   *)
(* pushed, rs1[pos] and rs2[pos] the randomness of the two cf_mul at pos.  *)
phase3_server_compute(bundle1, bundle2, keypair1, keypair2, common, rs1, rs2) ==
    LET held == (DOMAIN bundle1.under_pk1.ft_by_pos)
                    \cap (DOMAIN bundle2.under_pk1.ft_by_pos)
                    \cap (DOMAIN bundle1.under_pk2.ft_by_pos)
                    \cap (DOMAIN bundle2.under_pk2.ft_by_pos)
        out_pk1 == [k \in DOMAIN common |->
                       cf_mul(bundle1.under_pk1.ft_by_pos[common[k]],
                              bundle2.under_pk1.ft_by_pos[common[k]],
                              rs1[common[k]], keypair1.public_key)]
        out_pk2 == [k \in DOMAIN common |->
                       cf_mul(bundle1.under_pk2.ft_by_pos[common[k]],
                              bundle2.under_pk2.ft_by_pos[common[k]],
                              rs2[common[k]], keypair2.public_key)]
    IN  IF \E k \in DOMAIN common : common[k] \notin held THEN Panic
        ELSE IF \E k \in DOMAIN common : ~IsOk(out_pk1[k]) \/ ~IsOk(out_pk2[k])
        THEN Panic
        ELSE Ok(<<[k \in DOMAIN common |-> out_pk1[k].val],
                  [k \in DOMAIN common |-> out_pk2[k].val]>>)

(* BigUint::to_u64_digits().last(): the most significant digit of the sum  *)
(* in radix 2^64, 0 for an empty digit list.  The radix is scaled with the *)
(* key sizes.                                                              *)
U64_RADIX == 256

RECURSIVE last_u64_digit(_)
last_u64_digit(x) ==
    IF x < U64_RADIX THEN x ELSE last_u64_digit(x \div U64_RADIX)

RECURSIVE sum_dec2(_, _, _)
sum_dec2(cts, k, keypair) ==
    IF k > Len(cts) THEN Ok(0)
    ELSE LET m == cf_mul_dec(cts[k], keypair.public_key, keypair.secret_key)
             rest == sum_dec2(cts, k + 1, keypair)
         IN  IF ~IsOk(m) \/ ~IsOk(rest) THEN Panic
             ELSE Ok(m.val + rest.val)

phase4_decrypt_and_count(cts, keypair) ==
    LET sum == sum_dec2(cts, 1, keypair)
    IN  IF ~IsOk(sum) THEN Panic ELSE Ok(last_u64_digit(sum.val))

-----------------------------------------------------------------------------
(* Specification SpecPSI: the four phases run once on two identifier       *)
(* lists under two key pairs with distinct moduli.                         *)

MaxIds == 3      \* identifier lists hold at most MaxIds identifiers
PsiMaxMask == 1  \* masks drawn in phase 2: 0..PsiMaxMask
PsiMaxRand == 1  \* randomness drawn in phases 2 and 3: units up to PsiMaxRand

(* The identifiers "A", "B", "C" known to BD1 and "B", "C", "D" known to   *)
(* BD2, as strings of character codes.                                     *)
IdsBD1 == {<<65>>, <<66>>, <<67>>}
IdsBD2 == {<<66>>, <<67>>, <<68>>}

(* Lists of at most MaxIds distinct identifiers of U in alphabetical order *)
(* (the tables do not depend on the order), and one list with a            *)
(* repetition.                                                             *)
IdLists(U) ==
    UNION {{l \in [1..k -> U] : \A i \in 1..(k - 1) : l[i][1] < l[i + 1][1]}
           : k \in 0..MaxIds}
    \cup {<<<<66>>, <<66>>>>}

PsiDraws(table, n) ==
    [table -> [b : {b \in 0..(n - 1) : b <= PsiMaxMask},
               r : {r \in Units(n) : r <= PsiMaxRand}]]

PsiMulRand(common, n) ==
    [{common[k] : k \in DOMAIN common} -> {r \in Units(n) : r <= PsiMaxRand}]

InitPSI ==
    /\ kp1 \in KeyPairs /\ kp2 \in KeyPairs
    /\ kp1.public_key.n # kp2.public_key.n
    /\ nss_a \in IdLists(IdsBD1) /\ nss_b \in IdLists(IdsBD2)
    /\ pc = "psi_start"
    /\ kp = None
    /\ table1 = None /\ table2 = None /\ bd1 = None /\ bd2 = None
    /\ agg_bd1 = None /\ agg_bd2 = None /\ count1 = None /\ count2 = None
    /\ IdleDemo /\ IdleCF /\ IdleKEA /\ IdleGen /\ IdleStor /\ IdleMem /\ IdleMath /\ IdleReg

Phase1 ==
    /\ pc = "psi_start"
    /\ table1' = SparseTable_build(nss_a)
    /\ table2' = SparseTable_build(nss_b)
    /\ pc' = "psi_tables"
    /\ UNCHANGED <<kp, m1, m2, c1, c2, c_somme, dec, cfVars, keaVars, regVars, genVars, memVars, mathVars, storVars>>
    /\ UNCHANGED <<kp1, kp2, nss_a, nss_b, bd1, bd2, agg_bd1, agg_bd2, count1, count2>>

Phase2BD1 ==
    /\ pc = "psi_tables"
    /\ \E draws1 \in PsiDraws(table1, kp1.public_key.n),
          draws2 \in PsiDraws(table1, kp2.public_key.n) :
            bd1' = phase2_prepare_dual_ft(table1, kp1, kp2, draws1, draws2)
    /\ pc' = "psi_ft1"
    /\ UNCHANGED <<kp, m1, m2, c1, c2, c_somme, dec, cfVars, keaVars, regVars, genVars, memVars, mathVars, storVars>>
    /\ UNCHANGED <<kp1, kp2, nss_a, nss_b, table1, table2, bd2, agg_bd1, agg_bd2,
                   count1, count2>>

Phase2BD2 ==
    /\ pc = "psi_ft1"
    /\ \E draws1 \in PsiDraws(table2, kp1.public_key.n),
          draws2 \in PsiDraws(table2, kp2.public_key.n) :
            bd2' = phase2_prepare_dual_ft(table2, kp1, kp2, draws1, draws2)
    /\ pc' = "psi_ft2"
    /\ UNCHANGED <<kp, m1, m2, c1, c2, c_somme, dec, cfVars, keaVars, regVars, genVars, memVars, mathVars, storVars>>
    /\ UNCHANGED <<kp1, kp2, nss_a, nss_b, table1, table2, bd1, agg_bd1, agg_bd2,
                   count1, count2>>

Phase3 ==
    /\ pc = "psi_ft2"
    /\ IsOk(bd1) /\ IsOk(bd2)
    /\ \E common \in IterationOrders(common_positions(table1, table2)) :
       \E rs1 \in PsiMulRand(common, kp1.public_key.n),
          rs2 \in PsiMulRand(common, kp2.public_key.n) :
            LET out == phase3_server_compute(bd1.val, bd2.val, kp1, kp2,
                                             common, rs1, rs2)
            IN  /\ agg_bd1' = IF IsOk(out) THEN Ok(out.val[1]) ELSE out
                /\ agg_bd2' = IF IsOk(out) THEN Ok(out.val[2]) ELSE out
    /\ pc' = "psi_server"
    /\ UNCHANGED <<kp, m1, m2, c1, c2, c_somme, dec, cfVars, keaVars, regVars, genVars, memVars, mathVars, storVars>>
    /\ UNCHANGED <<kp1, kp2, nss_a, nss_b, table1, table2, bd1, bd2, count1, count2>>

Phase4 ==
    /\ pc = "psi_server"
    /\ IsOk(agg_bd1) /\ IsOk(agg_bd2)
    /\ count1' = phase4_decrypt_and_count(agg_bd1.val, kp1)
    /\ count2' = phase4_decrypt_and_count(agg_bd2.val, kp2)
    /\ pc' = "psi_counted"
    /\ UNCHANGED <<kp, m1, m2, c1, c2, c_somme, dec, cfVars, keaVars, regVars, genVars, memVars, mathVars, storVars>>
    /\ UNCHANGED <<kp1, kp2, nss_a, nss_b, table1, table2, bd1, bd2, agg_bd1, agg_bd2>>

NextPSI == Phase1 \/ Phase2BD1 \/ Phase2BD2 \/ Phase3 \/ Phase4

SpecPSI == InitPSI /\ [][NextPSI]_vars

-----------------------------------------------------------------------------
(* What each phase of the protocol is handed (the parameters of            *)
(* phase2_prepare_dual_ft, phase3_server_compute and                       *)
(* phase4_decrypt_and_count), each argument with the party it belongs to.  *)

Argument(kind, owner, val) == [kind |-> kind, owner |-> owner, val |-> val]

phase2_arguments(table) ==
    <<Argument("table", "self", table),
      Argument("key", "BD1", kp1), Argument("key", "BD2", kp2)>>

phase3_arguments ==
    <<Argument("table", "BD1", table1), Argument("table", "BD2", table2),
      Argument("bundle", "BD1", bd1), Argument("bundle", "BD2", bd2),
      Argument("key", "BD1", kp1), Argument("key", "BD2", kp2)>>

phase4_arguments(party, cts, keypair) ==
    <<Argument("triples", party, cts), Argument("key", party, keypair)>>

(* The calls of the step that led to the current state: the party that     *)
(* ran each and what it was handed.                                        *)
CallsOfStep ==
    IF pc = "psi_ft1" THEN <<[party |-> "BD1", args |-> phase2_arguments(table1)]>>
    ELSE IF pc = "psi_ft2" THEN <<[party |-> "BD2", args |-> phase2_arguments(table2)]>>
    ELSE IF pc = "psi_server" THEN <<[party |-> "server", args |-> phase3_arguments]>>
    ELSE IF pc = "psi_counted"
    THEN <<[party |-> "BD1", args |-> phase4_arguments("BD1", agg_bd1, kp1)],
           [party |-> "BD2", args |-> phase4_arguments("BD2", agg_bd2, kp2)]>>
    ELSE <<>>

-----------------------------------------------------------------------------
(* KeyRegistry (key_management/key_registry.rs).                           *)

(* SecretKey::zeroize and the Drop of KeyPair: lambda and mu are cleared.  *)
zeroize(sk) == [lambda |-> 0, mu |-> 0]

drop_keypair(keypair) ==
    [public_key |-> keypair.public_key, secret_key |-> zeroize(keypair.secret_key)]

(* The Drop of KeyPairKEA: psy is overwritten with zero.                   *)
drop_kea(k) == [k EXCEPT !.psy = 0]

(* Mutant of write_ready: a write guard is handed out despite readers.     *)
write_ready_despite_readers(l) == l.writers = {}

(* RwLock::write returns its guard once no guard is out.                   *)
write_ready(l) == l.writers = {} /\ l.readers = {}

(* Mutant of read_ready: a read guard is refused while another is out.     *)
read_ready_exclusive(l) == l.writers = {} /\ l.readers = {}

(* RwLock::read returns its guard once no write guard is out.              *)
read_ready(l) == l.writers = {}

(* The closures handed to with_secret_key: the decryption of the header    *)
(* comment, and the clone of lambda of test_with_secret_key_does_not_leak. *)
Closures == {"p_decrypt", "lambda_clone"}

(* What a closure of with_secret_key returns, given the lent SecretKey;    *)
(* clone_of names the secret field the value is a clone of, if any.        *)
apply_closure(f, sk, arg) ==
    IF f = "lambda_clone"
    THEN Ok([val |-> sk.lambda, clone_of |-> "secret_key.lambda"])
    ELSE LET m == p_decrypt(arg.ct, arg.pk, sk)
         IN  IF m.tag = "Panic" THEN Panic
             ELSE Ok([val |-> m, clone_of |-> "nothing"])

(* Mutant of missing_key: every empty slot reports NoPaillierKey.           *)
missing_key_always_paillier(op) == Err("NoPaillierKey")

(* The error of a read of an empty slot.                                   *)
missing_key(op) ==
    IF op = "with_kea" THEN Err("NoKeaKey") ELSE Err("NoPaillierKey")

-----------------------------------------------------------------------------
(* Specification SpecRegistry: NumThreads threads sharing one KeyRegistry, *)
(* each making one call after another.  A call takes its guard, works on   *)
(* the slot in steps, and gives the guard back when it returns.            *)

NumThreads == 2
Threads == 1..NumThreads

(* The key pairs and KEA keys the threads install.                         *)
RegKeyPairs == KeyPairs
RegKeas == {paillier_kea_keygen(k.public_key, 2, 1, 1).val : k \in KeyPairs}

(* The ciphertexts a handler decrypts under the public key it fetched.     *)
RegCts(pk) == {p_encrypt(m, 1, pk).val : m \in 0..1}

InitRegistry ==
    /\ inner = [keypair |-> None, kea |-> None]
    /\ lock = [writers |-> {}, readers |-> {}]
    /\ tpc = [t \in Threads |-> "idle"]
    /\ call = [t \in Threads |-> None]
    /\ seen = [t \in Threads |-> None]
    /\ ret = [t \in Threads |-> None]
    /\ pc = "registry"
    /\ kp = None
    /\ IdleDemo /\ IdleCF /\ IdleKEA /\ IdleGen /\ IdleStor /\ IdleMem /\ IdleMath /\ IdlePSI

RegFrame == UNCHANGED <<demoVars, cfVars, keaVars, psiVars, genVars, memVars, mathVars, storVars>>

(* self.write()? of set_keypair, clear_keypair, set_kea and clear_kea.     *)
BeginWrite(t) ==
    /\ tpc[t] = "idle"
    /\ write_ready(lock)
    /\ \E c \in {[op |-> "set_keypair", arg |-> k] : k \in RegKeyPairs}
             \cup {[op |-> "set_kea", arg |-> k] : k \in RegKeas}
             \cup {[op |-> "clear_keypair", arg |-> None],
                   [op |-> "clear_kea", arg |-> None]} :
            call' = [call EXCEPT ![t] = c]
    /\ lock' = [lock EXCEPT !.writers = @ \cup {t}]
    /\ tpc' = [tpc EXCEPT ![t] = "drop_old"]
    /\ ret' = [ret EXCEPT ![t] = None]
    /\ UNCHANGED <<inner, seen>>
    /\ RegFrame

(* Mutant of DropOld: the values of both slots are dropped.                *)
DropOld_both_slots(t) ==
    /\ tpc[t] = "drop_old"
    /\ inner' = [keypair |-> IF IsOk(inner.keypair)
                             THEN Ok(drop_keypair(inner.keypair.val)) ELSE inner.keypair,
                 kea |-> IF IsOk(inner.kea)
                         THEN Ok(drop_kea(inner.kea.val)) ELSE inner.kea]
    /\ tpc' = [tpc EXCEPT ![t] = "store"]
    /\ UNCHANGED <<lock, call, seen, ret>>
    /\ RegFrame

(* The assignment to the slot first drops the value it held.               *)
DropOld(t) ==
    /\ tpc[t] = "drop_old"
    /\ inner' = IF call[t].op \in {"set_keypair", "clear_keypair"}
                THEN IF IsOk(inner.keypair)
                     THEN [inner EXCEPT !.keypair = Ok(drop_keypair(@.val))]
                     ELSE inner
                ELSE IF IsOk(inner.kea)
                     THEN [inner EXCEPT !.kea = Ok(drop_kea(@.val))]
                     ELSE inner
    /\ tpc' = [tpc EXCEPT ![t] = "store"]
    /\ UNCHANGED <<lock, call, seen, ret>>
    /\ RegFrame

(* Mutant of Store: set_keypair returns Ok without installing its key pair. *)
Store_without_keypair(t) ==
    /\ tpc[t] = "store"
    /\ inner' = IF call[t].op = "set_keypair" THEN inner
                ELSE IF call[t].op = "clear_keypair" THEN [inner EXCEPT !.keypair = None]
                ELSE IF call[t].op = "set_kea" THEN [inner EXCEPT !.kea = Ok(call[t].arg)]
                ELSE [inner EXCEPT !.kea = None]
    /\ lock' = [lock EXCEPT !.writers = @ \ {t}]
    /\ ret' = [ret EXCEPT ![t] = Ok(<<>>)]
    /\ tpc' = [tpc EXCEPT ![t] = "idle"]
    /\ UNCHANGED <<call, seen>>
    /\ RegFrame

(* The new value is stored, the write guard dropped and Ok(()) returned.   *)
Store(t) ==
    /\ tpc[t] = "store"
    /\ inner' = IF call[t].op = "set_keypair" THEN [inner EXCEPT !.keypair = Ok(call[t].arg)]
                ELSE IF call[t].op = "clear_keypair" THEN [inner EXCEPT !.keypair = None]
                ELSE IF call[t].op = "set_kea" THEN [inner EXCEPT !.kea = Ok(call[t].arg)]
                ELSE [inner EXCEPT !.kea = None]
    /\ lock' = [lock EXCEPT !.writers = @ \ {t}]
    /\ ret' = [ret EXCEPT ![t] = Ok(<<>>)]
    /\ tpc' = [tpc EXCEPT ![t] = "idle"]
    /\ UNCHANGED <<call, seen>>
    /\ RegFrame

(* self.read()? of public_key, with_secret_key, with_kea, has_keypair and  *)
(* has_kea.  The decrypting closure captures the PublicKey the thread's    *)
(* previous call fetched.                                                  *)
BeginRead(t) ==
    /\ tpc[t] = "idle"
    /\ read_ready(lock)
    /\ \E c \in {[op |-> o, arg |-> None] :
                    o \in {"public_key", "with_kea", "has_keypair", "has_kea"}}
             \cup {[op |-> "with_secret_key", arg |-> [f |-> "lambda_clone"]]}
             \cup (IF call[t] # None /\ call[t].op = "public_key" /\ IsOk(ret[t])
                   THEN {[op |-> "with_secret_key",
                          arg |-> [f |-> "p_decrypt", pk |-> ret[t].val, ct |-> c]]
                            : c \in RegCts(ret[t].val)}
                   ELSE {}) :
            call' = [call EXCEPT ![t] = c]
    /\ lock' = [lock EXCEPT !.readers = @ \cup {t}]
    /\ tpc' = [tpc EXCEPT ![t] = "guarded"]
    /\ ret' = [ret EXCEPT ![t] = None]
    /\ seen' = [seen EXCEPT ![t] = None]
    /\ UNCHANGED inner
    /\ RegFrame

(* has_keypair / has_kea: the probe of the slot, then the guard is dropped. *)
Probe(t) ==
    /\ tpc[t] = "guarded"
    /\ call[t].op \in {"has_keypair", "has_kea"}
    /\ ret' = [ret EXCEPT ![t] =
                  Ok(IF call[t].op = "has_keypair" THEN IsOk(inner.keypair)
                                                   ELSE IsOk(inner.kea))]
    /\ lock' = [lock EXCEPT !.readers = @ \ {t}]
    /\ tpc' = [tpc EXCEPT ![t] = "idle"]
    /\ UNCHANGED <<inner, call, seen>>
    /\ RegFrame

(* as_ref() on an empty slot: the guard is dropped and the error returned  *)
(* without the closure being called.                                       *)
ReadEmpty(t) ==
    /\ tpc[t] = "guarded"
    /\ call[t].op \in {"public_key", "with_secret_key", "with_kea"}
    /\ ~IsOk(IF call[t].op = "with_kea" THEN inner.kea ELSE inner.keypair)
    /\ ret' = [ret EXCEPT ![t] = missing_key(call[t].op)]
    /\ lock' = [lock EXCEPT !.readers = @ \ {t}]
    /\ tpc' = [tpc EXCEPT ![t] = "idle"]
    /\ UNCHANGED <<inner, call, seen>>
    /\ RegFrame

(* The first field read through the lent reference: n by the clone of      *)
(* public_key, lambda by the closure of with_secret_key, pk by the closure *)
(* of with_kea.                                                            *)
ReadFirst(t) ==
    /\ tpc[t] = "guarded"
    /\ call[t].op \in {"public_key", "with_secret_key", "with_kea"}
    /\ IsOk(IF call[t].op = "with_kea" THEN inner.kea ELSE inner.keypair)
    /\ seen' = [seen EXCEPT ![t] =
                   IF call[t].op = "public_key"
                   THEN [n |-> inner.keypair.val.public_key.n]
                   ELSE IF call[t].op = "with_secret_key"
                   THEN [lambda |-> inner.keypair.val.secret_key.lambda]
                   ELSE [pk |-> inner.kea.val.pk]]
    /\ tpc' = [tpc EXCEPT ![t] = "reading"]
    /\ UNCHANGED <<inner, lock, call, ret>>
    /\ RegFrame

(* The remaining fields are read, the guard is dropped and the result      *)
(* returned: the cloned PublicKey, or whatever the closure returns.        *)
ReadRest(t) ==
    /\ tpc[t] = "reading"
    /\ IsOk(IF call[t].op = "with_kea" THEN inner.kea ELSE inner.keypair)
    /\ ret' = [ret EXCEPT ![t] =
                  IF call[t].op = "public_key"
                  THEN Ok([n |-> seen[t].n,
                           g |-> inner.keypair.val.public_key.g,
                           n_squared |-> inner.keypair.val.public_key.n_squared])
                  ELSE IF call[t].op = "with_secret_key"
                  THEN apply_closure(call[t].arg.f,
                                     [lambda |-> seen[t].lambda,
                                      mu |-> inner.keypair.val.secret_key.mu],
                                     call[t].arg)
                  ELSE Ok([pk |-> seen[t].pk, ct_delta |-> inner.kea.val.ct_delta])]
    /\ lock' = [lock EXCEPT !.readers = @ \ {t}]
    /\ tpc' = [tpc EXCEPT ![t] = "idle"]
    /\ UNCHANGED <<inner, call, seen>>
    /\ RegFrame

NextRegistry ==
    \E t \in Threads :
        \/ BeginWrite(t) \/ DropOld(t) \/ Store(t)
        \/ BeginRead(t) \/ Probe(t) \/ ReadEmpty(t) \/ ReadFirst(t) \/ ReadRest(t)

SpecRegistry == InitRegistry /\ [][NextRegistry]_vars

-----------------------------------------------------------------------------
(* Specification SpecReaders: test_registry_concurrent_reads.  The key     *)
(* pair is set before the threads are spawned; each of NumReaders threads  *)
(* then calls public_key over and over (the test's loop, repeated without  *)
(* end here).  No thread writes.                                           *)

NumReaders == 3
Readers == 1..NumReaders

InitReaders ==
    /\ \E k \in RegKeyPairs : inner = [keypair |-> Ok(k), kea |-> None]
    /\ lock = [writers |-> {}, readers |-> {}]
    /\ tpc = [t \in Readers |-> "idle"]
    /\ call = [t \in Readers |-> None]
    /\ seen = [t \in Readers |-> None]
    /\ ret = [t \in Readers |-> None]
    /\ pc = "readers"
    /\ kp = None
    /\ IdleDemo /\ IdleCF /\ IdleKEA /\ IdleGen /\ IdleStor /\ IdleMem /\ IdleMath /\ IdlePSI

(* r.public_key(): self.read()? hands out the read guard.                  *)
ReaderCall(t) ==
    /\ tpc[t] = "idle"
    /\ read_ready(lock)
    /\ call' = [call EXCEPT ![t] = [op |-> "public_key", arg |-> None]]
    /\ lock' = [lock EXCEPT !.readers = @ \cup {t}]
    /\ tpc' = [tpc EXCEPT ![t] = "guarded"]
    /\ ret' = [ret EXCEPT ![t] = None]
    /\ seen' = [seen EXCEPT ![t] = None]
    /\ UNCHANGED inner
    /\ RegFrame

ReaderStep(t) == ReaderCall(t) \/ ReadFirst(t) \/ ReadRest(t)

NextReaders == \E t \in Readers : ReaderStep(t)

(* Every spawned thread keeps being scheduled.                             *)
SpecReaders ==
    InitReaders /\ [][NextReaders]_vars /\ \A t \in Readers : WF_vars(ReaderStep(t))

-----------------------------------------------------------------------------
(* Specification SpecDecrypt: p_decrypt called on any integer a caller can *)
(* pass as a ciphertext, from 0 up to just beyond n^2.                     *)

InitDecrypt ==
    /\ kp \in KeyPairs
    /\ pc = "dec_start"
    /\ IdleDemo /\ IdleCF /\ IdleKEA /\ IdleGen /\ IdleStor /\ IdleMem /\ IdleMath /\ IdlePSI /\ IdleReg

DecryptDraw ==
    /\ pc = "dec_start"
    /\ \E c \in 0..(kp.public_key.n_squared + 1) : c1' = Ok(c)
    /\ pc' = "dec_drawn"
    /\ UNCHANGED <<kp, m1, m2, c2, c_somme, dec, cfVars, keaVars, psiVars, regVars, genVars, memVars, mathVars, storVars>>

DecryptAny ==
    /\ pc = "dec_drawn"
    /\ dec' = p_decrypt(c1.val, kp.public_key, kp.secret_key)
    /\ pc' = "dec_done"
    /\ UNCHANGED <<kp, m1, m2, c1, c2, c_somme, cfVars, keaVars, psiVars, regVars, genVars, memVars, mathVars, storVars>>

NextDecrypt == DecryptDraw \/ DecryptAny

SpecDecrypt == InitDecrypt /\ [][NextDecrypt]_vars

-----------------------------------------------------------------------------
(* Specification SpecKeySize: p_keygen(nbits) up to n = p * q, on          *)
(* full-width integers, for every key size up to MaxNbits.                 *)

MaxNbits == 130

(* What gen_biguint(w) returns in the model: no bit, every bit, every      *)
(* other bit, every third bit, the top bit alone.                          *)
RandomBits(w) ==
    {{}, 0..(w - 1), {k \in 0..(w - 1) : k % 2 = 0},
     {k \in 0..(w - 1) : k % 3 = 1}, {k \in 0..(w - 1) : k = w - 1}}

InitKeySize ==
    /\ nbits \in 0..MaxNbits
    /\ sophie_germain = None /\ safe_p = None /\ safe_q = None /\ n_pq = None
    /\ pc = "kg_start"
    /\ kp = None
    /\ IdleDemo /\ IdleCF /\ IdleKEA /\ IdleStor /\ IdleMem /\ IdleMath /\ IdlePSI /\ IdleReg

(* let p = generate_safe_prime(nbits)?; an error is what p_keygen returns. *)
KeygenP ==
    /\ pc = "kg_start"
    /\ \E random_bits \in RandomBits(nbits - 1) :
          /\ safe_p' = generate_safe_prime(nbits, random_bits)
          /\ sophie_germain' = IF IsOk(safe_p') THEN Ok(candidate(nbits, random_bits))
                                ELSE sophie_germain
    /\ kp' = IF IsOk(safe_p') THEN kp ELSE safe_p'
    /\ pc' = IF IsOk(safe_p') THEN "kg_p" ELSE "kg_failed"
    /\ UNCHANGED <<m1, m2, c1, c2, c_somme, dec, cfVars, keaVars, psiVars, regVars,
                   storVars, memVars, mathVars, nbits, safe_q, n_pq>>

(* let mut q = generate_safe_prime(nbits)?; while p == q { ... }.          *)
KeygenQ ==
    /\ pc = "kg_p"
    /\ \E random_bits \in RandomBits(nbits - 1) :
          /\ safe_q' = generate_safe_prime(nbits, random_bits)
          /\ sophie_germain' = Ok(candidate(nbits, random_bits))
    /\ safe_q' # safe_p
    /\ pc' = "kg_q"
    /\ UNCHANGED <<kp, m1, m2, c1, c2, c_somme, dec, cfVars, keaVars, psiVars, regVars,
                   storVars, memVars, mathVars, nbits, safe_p, n_pq>>

(* let n = &p * &q.                                                        *)
KeygenN ==
    /\ pc = "kg_q"
    /\ n_pq' = Ok(big_mul(safe_p.val, safe_q.val))
    /\ pc' = "kg_n"
    /\ UNCHANGED <<kp, m1, m2, c1, c2, c_somme, dec, cfVars, keaVars, psiVars, regVars,
                   storVars, memVars, mathVars, nbits, sophie_germain, safe_p, safe_q>>

NextKeySize == KeygenP \/ KeygenQ \/ KeygenN

SpecKeySize == InitKeySize /\ [][NextKeySize]_vars

-----------------------------------------------------------------------------
(* Specification SpecKeyFile: one key file, and what hex_to_biguint,       *)
(* json_to_public_key, json_to_keypair and the two loaders make of it.     *)

Zeros(k) == [i \in 1..k |-> "0"]
AllF(k) == [i \in 1..k |-> "F"]

(* tail with zeros in front, k characters in all.                          *)
Padded(k, tail) == Zeros(k - Len(tail)) \o tail

KeyPairJson(n, g, n_squared, lambda, mu) ==
    [public_key |-> [n |-> n, g |-> g, n_squared |-> n_squared],
     secret_key |-> [lambda |-> lambda, mu |-> mu]]

(* Files with short fields: n = 15 in several spellings, n_squared = 225   *)
(* or 226, and fields that are empty or hold a character that is no digit. *)
ShortJsons ==
    {KeyPairJson(n, g, n_squared, lambda, <<"4">>) :
        n \in {<<"F">>, <<"0", "F">>, <<"f">>, <<"G">>, <<>>},
        g \in {<<"1", "0">>, <<"G">>},
        n_squared \in {<<"E", "1">>, <<"e", "1">>, <<"E", "2">>, <<"G">>},
        lambda \in {<<"4">>, <<"G">>}}

(* The coherent file of n = 15 with one field at or just over the bound.   *)
LongJsons ==
    LET base == KeyPairJson(<<"F">>, <<"1", "0">>, <<"E", "1">>, <<"4">>, <<"4">>)
        long == {AllF(MAX_HEX_FIELD_LEN), AllF(MAX_HEX_FIELD_LEN + 1)}
    IN  {[base EXCEPT !.public_key.n = x] :
            x \in {Padded(MAX_HEX_FIELD_LEN, <<"F">>),
                   Padded(MAX_HEX_FIELD_LEN + 1, <<"F">>)}}
        \cup {[base EXCEPT !.public_key.n_squared = x] :
            x \in long \cup {Padded(MAX_HEX_FIELD_LEN, <<"E", "1">>)}}
        \cup {[base EXCEPT !.public_key.g = x] : x \in long}
        \cup {[base EXCEPT !.secret_key.lambda = x] : x \in long}
        \cup {[base EXCEPT !.secret_key.mu = x] : x \in long}

(* The file lengths: the largest accepted and the smallest refused (JSON   *)
(* text can be padded with white space to any length).                     *)
FileLens == {MAX_KEY_FILE_BYTES, MAX_KEY_FILE_BYTES + 1}

InitKeyFile ==
    /\ file \in {[len |-> l, json |-> j] : l \in FileLens, j \in ShortJsons \cup LongJsons}
    /\ hex = None /\ loaded = None
    /\ pc = "file_start"
    /\ kp = None
    /\ IdleDemo /\ IdleCF /\ IdleKEA /\ IdleGen /\ IdleMem /\ IdleMath /\ IdlePSI /\ IdleReg

FileFrame ==
    UNCHANGED <<kp, m1, m2, c1, c2, c_somme, dec, cfVars, keaVars, psiVars, regVars,
                genVars, memVars, mathVars, file>>

(* hex_to_biguint on each of the five fields.                              *)
HexFields ==
    /\ pc = "file_start"
    /\ hex' = [n |-> hex_to_biguint(file.json.public_key.n),
               g |-> hex_to_biguint(file.json.public_key.g),
               n_squared |-> hex_to_biguint(file.json.public_key.n_squared),
               lambda |-> hex_to_biguint(file.json.secret_key.lambda),
               mu |-> hex_to_biguint(file.json.secret_key.mu)]
    /\ pc' = "file_hex"
    /\ UNCHANGED loaded
    /\ FileFrame

JsonToPublicKey ==
    /\ pc = "file_start"
    /\ loaded' = json_to_public_key(file.json.public_key)
    /\ pc' = "file_json_pk"
    /\ UNCHANGED hex
    /\ FileFrame

JsonToKeypair ==
    /\ pc = "file_start"
    /\ loaded' = json_to_keypair(file.json)
    /\ pc' = "file_json_kp"
    /\ UNCHANGED hex
    /\ FileFrame

LoadPublicKeyJson ==
    /\ pc = "file_start"
    /\ loaded' = load_public_key_json(file)
    /\ pc' = "file_load_pk"
    /\ UNCHANGED hex
    /\ FileFrame

LoadKeypairJson ==
    /\ pc = "file_start"
    /\ loaded' = load_keypair_json(file)
    /\ pc' = "file_load_kp"
    /\ UNCHANGED hex
    /\ FileFrame

NextKeyFile ==
    HexFields \/ JsonToPublicKey \/ JsonToKeypair \/ LoadPublicKeyJson \/ LoadKeypairJson

SpecKeyFile == InitKeyFile /\ [][NextKeyFile]_vars

-----------------------------------------------------------------------------
(* Specification SpecRoundTrip: p_keygen(nbits) on full-width integers,    *)
(* then save_keypair_json and load_keypair_json of the key pair.           *)

(* x >> 1.                                                                 *)
shr1(x) == {k - 1 : k \in {j \in x : j > 0}}

(* The rest of p_keygen after n.  lambda = lcm(p-1, q-1) is 2 p' q' for    *)
(* the distinct primes p' = (p-1)/2 and q' = (q-1)/2.  mu, the inverse of  *)
(* L(g^lambda) modulo n, is not computed: it is any non-zero value of the  *)
(* sample below n.                                                         *)
KeygenFinish ==
    /\ pc = "kg_n"
    /\ \E mu \in RandomBits(big_bits(n_pq.val) - 1) \ {{}} :
          kp' = Ok([public_key |-> [n |-> n_pq.val,
                                    g |-> big_add_one(n_pq.val),
                                    n_squared |-> big_mul(n_pq.val, n_pq.val)],
                    secret_key |-> [lambda |-> shl1(big_mul(shr1(safe_p.val),
                                                            shr1(safe_q.val))),
                                    mu |-> mu]])
    /\ pc' = "kg_done"
    /\ UNCHANGED <<m1, m2, c1, c2, c_somme, dec, cfVars, keaVars, psiVars, regVars,
                   storVars, genVars, memVars, mathVars>>

SaveKeypairJson ==
    /\ pc = "kg_done"
    /\ file' = save_keypair_json(kp.val)
    /\ pc' = "rt_saved"
    /\ UNCHANGED <<kp, m1, m2, c1, c2, c_somme, dec, cfVars, keaVars, psiVars, regVars,
                   genVars, memVars, mathVars, hex, loaded>>

LoadSavedKeypair ==
    /\ pc = "rt_saved"
    /\ loaded' = load_keypair_json(file)
    /\ pc' = "rt_loaded"
    /\ UNCHANGED <<kp, m1, m2, c1, c2, c_somme, dec, cfVars, keaVars, psiVars, regVars,
                   genVars, memVars, mathVars, file, hex>>

NextRoundTrip == NextKeySize \/ KeygenFinish \/ SaveKeypairJson \/ LoadSavedKeypair

SpecRoundTrip == InitKeySize /\ [][NextRoundTrip]_vars

-----------------------------------------------------------------------------
(* The memory behind secret values (paillier/p_keygen/p_keygen.rs,         *)
(* paillier_kea/paillier_kea_keygen.rs).  A BigUint owns one allocation    *)
(* holding its digits, or none when it is zero; a field is the reference   *)
(* of its allocation, NoBuffer for none.  Dropping a BigUint, as the       *)
(* assignment to a place does to the old value, releases the allocation    *)
(* with the digits it holds.                                               *)

MaxBuffers == 6
Buffers == 1..MaxBuffers
NoBuffer == 0

fresh(h) ==
    CHOOSE b \in Buffers :
        h[b].state = "unused" /\ \A c \in Buffers : c < b => h[c].state # "unused"

(* A new BigUint of value digits.                                          *)
allocate(h, digits) == [h EXCEPT ![fresh(h)] = [digits |-> digits, state |-> "live"]]

(* The Drop of a BigUint: its Vec is deallocated.                          *)
release(h, b) == IF b = NoBuffer THEN h ELSE [h EXCEPT ![b].state = "released"]

(* zeroize_biguint: for bits > 0, *n = BigUint::from_bytes_be(zeros) puts  *)
(* a new zero value in the place and drops the value that was there; then  *)
(* *n = BigUint::default() does the same again.  The place ends up holding *)
(* a zero without allocation.                                              *)
zeroize_biguint(h, b) ==
    IF b # NoBuffer /\ h[b].digits > 0 THEN release(release(h, b), NoBuffer)
    ELSE release(h, b)

(* impl Drop for SecretKey: zeroize() on lambda and on mu, then the fields *)
(* themselves are dropped.                                                 *)
SecretKey_drop(h, sk) ==
    release(release(zeroize_biguint(zeroize_biguint(h, sk.lambda), sk.mu),
                    NoBuffer), NoBuffer)

(* impl Drop for KeyPairKEA: self.psy = BigUint::from(0u32) drops the old  *)
(* psy; then the field is dropped.                                         *)
KeyPairKEA_drop(h, k) == release(release(h, k.psy), NoBuffer)

drop_owned(h, o) ==
    IF o = None THEN h
    ELSE IF o.kind = "SecretKey" THEN SecretKey_drop(h, o) ELSE KeyPairKEA_drop(h, o)

(* A SecretKey with the given lambda and mu, each in a new allocation.     *)
new_secret_key(h, lambda, mu) ==
    [kind |-> "SecretKey", lambda |-> fresh(h), mu |-> fresh(allocate(h, lambda))]

heap_with_secret_key(h, lambda, mu) == allocate(allocate(h, lambda), mu)

new_kea(h, psy) == [kind |-> "KeyPairKEA", psy |-> fresh(h)]

(* derive(Clone): every field is copied into a new allocation.             *)
clone_owned(h, o) ==
    IF o.kind = "SecretKey" THEN new_secret_key(h, h[o.lambda].digits, h[o.mu].digits)
    ELSE new_kea(h, h[o.psy].digits)

heap_with_clone(h, o) ==
    IF o.kind = "SecretKey"
    THEN heap_with_secret_key(h, h[o.lambda].digits, h[o.mu].digits)
    ELSE allocate(h, h[o.psy].digits)

-----------------------------------------------------------------------------
(* Specification SpecZeroize: secret keys are generated into local         *)
(* variables, cloned, moved into the registry's slots, cleared and         *)
(* dropped.                                                                *)

Locals == {"local", "clone"}
Slots == {"keypair", "kea"}
Owners == Locals \cup Slots

Unused(h) == Cardinality({b \in Buffers : h[b].state = "unused"})

InitZeroize ==
    /\ heap = [b \in Buffers |-> [digits |-> 0, state |-> "unused"]]
    /\ owned = [o \in Owners |-> None]
    /\ pc = "memory"
    /\ kp = None
    /\ IdleDemo /\ IdleCF /\ IdleKEA /\ IdleGen /\ IdleStor /\ IdleMath /\ IdlePSI /\ IdleReg

MemFrame == UNCHANGED <<demoVars, cfVars, keaVars, psiVars, regVars, genVars, storVars, mathVars>>

(* let kp = p_keygen(..)?: the SecretKey of the result.                    *)
MemKeygen(o) ==
    /\ pc = "memory" /\ owned[o] = None /\ Unused(heap) >= 2
    /\ \E k \in KeyPairs :
          /\ owned' = [owned EXCEPT ![o] =
                           new_secret_key(heap, k.secret_key.lambda, k.secret_key.mu)]
          /\ heap' = heap_with_secret_key(heap, k.secret_key.lambda, k.secret_key.mu)
    /\ MemFrame

(* let kea = paillier_kea_keygen(..)?.                                     *)
MemKeaKeygen(o) ==
    /\ pc = "memory" /\ owned[o] = None /\ Unused(heap) >= 1
    /\ \E k \in RegKeas :
          /\ owned' = [owned EXCEPT ![o] = new_kea(heap, k.psy)]
          /\ heap' = allocate(heap, k.psy)
    /\ MemFrame

(* .clone() of a key into the other local variable.                        *)
MemClone(from, to) ==
    /\ pc = "memory" /\ owned[from] # None /\ owned[to] = None
    /\ Unused(heap) >= 2
    /\ owned' = [owned EXCEPT ![to] = clone_owned(heap, owned[from])]
    /\ heap' = heap_with_clone(heap, owned[from])
    /\ MemFrame

(* set_keypair(k) / set_kea(k): the slot's old value is dropped and the    *)
(* local value moved in.                                                   *)
MemSet(o) ==
    /\ pc = "memory" /\ owned[o] # None
    /\ heap' = drop_owned(heap, owned[IF owned[o].kind = "SecretKey"
                                      THEN "keypair" ELSE "kea"])
    /\ owned' = [owned EXCEPT ![IF owned[o].kind = "SecretKey"
                                THEN "keypair" ELSE "kea"] = owned[o],
                              ![o] = None]
    /\ MemFrame

(* clear_keypair() / clear_kea(): the slot's value is dropped.             *)
MemClear(slot) ==
    /\ pc = "memory"
    /\ heap' = drop_owned(heap, owned[slot])
    /\ owned' = [owned EXCEPT ![slot] = None]
    /\ MemFrame

(* A local variable goes out of scope.                                     *)
MemDrop(o) ==
    /\ pc = "memory" /\ owned[o] # None
    /\ heap' = drop_owned(heap, owned[o])
    /\ owned' = [owned EXCEPT ![o] = None]
    /\ MemFrame

NextZeroize ==
    \/ \E o \in Locals : MemKeygen(o) \/ MemKeaKeygen(o) \/ MemSet(o) \/ MemDrop(o)
    \/ \E from, to \in Locals : MemClone(from, to)
    \/ \E slot \in Slots : MemClear(slot)

SpecZeroize == InitZeroize /\ [][NextZeroize]_vars

-----------------------------------------------------------------------------
(* Specification SpecModInverse: one call of mod_inverse(a, n) for every   *)
(* a up to MaxModArg and every n from 1 to MaxModulus.                     *)

MaxModArg == 40
MaxModulus == 36

InitModInverse ==
    /\ mi_a \in 0..MaxModArg
    /\ mi_n \in 1..MaxModulus
    /\ mi_result = None
    /\ pc = "inv_start"
    /\ kp = None
    /\ IdleDemo /\ IdleCF /\ IdleKEA /\ IdleGen /\ IdleStor /\ IdleMem /\ IdlePSI /\ IdleReg

ModInverse ==
    /\ pc = "inv_start"
    /\ mi_result' = mod_inverse(mi_a, mi_n)
    /\ pc' = "inv_done"
    /\ UNCHANGED <<kp, m1, m2, c1, c2, c_somme, dec, cfVars, keaVars, psiVars, regVars,
                   genVars, storVars, memVars, mi_a, mi_n>>

NextModInverse == ModInverse

SpecModInverse == InitModInverse /\ [][NextModInverse]_vars

-----------------------------------------------------------------------------
(* Specification SpecKeygen: p_keygen from its two draws of safe primes,   *)
(* over the safe primes below 200.                                         *)

SafePrimesBelow200 == {5, 7, 11, 23, 47, 59, 83, 107, 167, 179}

InitKeygen ==
    /\ pc = "keygen_start"
    /\ kp = None
    /\ nbits = None /\ sophie_germain = None /\ safe_p = None /\ safe_q = None
    /\ n_pq = None
    /\ IdleDemo /\ IdleCF /\ IdleKEA /\ IdleStor /\ IdleMem /\ IdleMath /\ IdlePSI /\ IdleReg

KeygenFrame ==
    UNCHANGED <<m1, m2, c1, c2, c_somme, dec, cfVars, keaVars, psiVars, regVars,
                storVars, memVars, mathVars, nbits, sophie_germain, n_pq>>

(* let p = generate_safe_prime(nbits)?.                                    *)
KeygenDrawP ==
    /\ pc = "keygen_start"
    /\ \E p \in SafePrimesBelow200 : safe_p' = Ok(p)
    /\ pc' = "keygen_p"
    /\ UNCHANGED <<kp, safe_q>>
    /\ KeygenFrame

(* let mut q = generate_safe_prime(nbits)?, drawn again while p == q.      *)
KeygenDrawQ ==
    /\ pc = "keygen_p" \/ (pc = "keygen_q" /\ safe_p = safe_q)
    /\ \E q \in SafePrimesBelow200 : safe_q' = Ok(q)
    /\ pc' = "keygen_q"
    /\ UNCHANGED <<kp, safe_p>>
    /\ KeygenFrame

(* The rest of p_keygen, from n = p * q to the returned Result.            *)
KeygenRest ==
    /\ pc = "keygen_q" /\ safe_p # safe_q
    /\ kp' = p_keygen(safe_p.val, safe_q.val)
    /\ pc' = "keygen_done"
    /\ UNCHANGED <<safe_p, safe_q>>
    /\ KeygenFrame

NextKeygen == KeygenDrawP \/ KeygenDrawQ \/ KeygenRest

SpecKeygen == InitKeygen /\ [][NextKeygen]_vars

-----------------------------------------------------------------------------
(* Specification SpecCount: phase4_decrypt_and_count on lists of up to     *)
(* MaxTriples second-form triples the server may send, whatever their      *)
(* plaintexts.                                                             *)

MaxTriples == 4

(* Triples whose first component encrypts 0, 1 or n - 1 and whose other    *)
(* two both encrypt 0 or both encrypt 1, with r = 1.                       *)
Triples(keypair) ==
    {<<p_encrypt(a, 1, keypair.public_key).val,
       p_encrypt(b, 1, keypair.public_key).val,
       p_encrypt(b, 1, keypair.public_key).val>>
        : a \in {0, 1, keypair.public_key.n - 1}, b \in {0, 1}}

InitCount ==
    /\ kp1 \in KeyPairs
    /\ \E len \in 0..MaxTriples : \E cts \in [1..len -> Triples(kp1)] : agg_bd1 = Ok(cts)
    /\ count1 = None
    /\ pc = "count_start"
    /\ kp = None
    /\ kp2 = None /\ nss_a = None /\ nss_b = None
    /\ table1 = None /\ table2 = None /\ bd1 = None /\ bd2 = None
    /\ agg_bd2 = None /\ count2 = None
    /\ IdleDemo /\ IdleCF /\ IdleKEA /\ IdleGen /\ IdleStor /\ IdleMem /\ IdleMath /\ IdleReg

Phase4Count ==
    /\ pc = "count_start"
    /\ count1' = phase4_decrypt_and_count(agg_bd1.val, kp1)
    /\ pc' = "count_done"
    /\ UNCHANGED <<kp, m1, m2, c1, c2, c_somme, dec, cfVars, keaVars, regVars, genVars, storVars, memVars, mathVars>>
    /\ UNCHANGED <<kp1, kp2, nss_a, nss_b, table1, table2, bd1, bd2, agg_bd1, agg_bd2,
                   count2>>

NextCount == Phase4Count

SpecCount == InitCount /\ [][NextCount]_vars

-----------------------------------------------------------------------------
(* C1: Paillier correctness.  For every key pair of p_keygen, every        *)
(* m < n and every r the sampling loop can return, decrypting the          *)
(* ciphertext of m returns Ok(m).                                          *)
C1_PaillierCorrectness ==
    (pc = "decrypted" /\ m1.val < kp.public_key.n) => dec = m1

C1_Witness ==
    /\ pc = "decrypted"
    /\ m1.val = kp.public_key.n - 1
    /\ c1.val # kp.public_key.g
    /\ dec = m1

(* C2: Paillier additive homomorphism.  Decrypting (c1 * c2) mod n^2,      *)
(* where c1 and c2 encrypt m1 and m2 under any sampled randomness,         *)
(* returns Ok((m1 + m2) mod n).                                            *)
C2_AdditiveHomomorphism ==
    pc = "hom_decrypted" => dec = Ok((m1.val + m2.val) % kp.public_key.n)

(* A sum that wraps around n, under two different non-trivial r.           *)
C2_Witness ==
    /\ pc = "hom_decrypted"
    /\ m1.val + m2.val > kp.public_key.n
    /\ c1.val # modpow(kp.public_key.g, m1.val, kp.public_key.n_squared)
    /\ c2.val # modpow(kp.public_key.g, m2.val, kp.public_key.n_squared)
    /\ dec = Ok((m1.val + m2.val) % kp.public_key.n)

(* C3: CF multiplication law.  cf_mul_dec of the cf_mul of the first-form  *)
(* ciphertexts of m1 (mask b1) and m2 (mask b2) returns Ok((m1*m2) mod n). *)
C3_CfMulLaw ==
    pc = "cf_mul_decrypted" => dec_mul = Ok((m1.val * m2.val) % kp.public_key.n)

(* C4: CF addition law.  cf_add_dec of the cf_add of the first-form        *)
(* ciphertexts of m1 and m2 returns Ok((m1 + m2) mod n).                   *)
C4_CfAddLaw ==
    pc \in {"cf_add_decrypted", "cf_multiplied", "cf_mul_decrypted"}
        => dec_add = Ok((m1.val + m2.val) % kp.public_key.n)

KeaDecrypted ==
    pc \in {"kea_decrypted", "kea_tamper_decrypted", "kea_forged_decrypted"}

(* C6: KEA round-trip.  For every KEA key of paillier_kea_keygen, every    *)
(* m < n and every r0, r1 paillier_kea_encrypt can sample, decrypting the  *)
(* KEA ciphertext of m returns Ok(m).                                      *)
C6_KeaRoundTrip ==
    (pc = "kea_decrypted" /\ m1.val < kp.public_key.n) => kea_dec = m1

(* Dec(c1) = (xi * Dec(c0)) mod n for the pair handed to the decryption.   *)
ImageHolds ==
    LET d0 == p_decrypt(ct.val[1], kp.public_key, kp.secret_key)
        d1 == p_decrypt(ct.val[2], kp.public_key, kp.secret_key)
    IN  /\ IsOk(d0) /\ IsOk(d1)
        /\ d1.val = (kea.val.psy * d0.val) % kp.public_key.n

(* C7: KEA decryption is gated on image verification.  For every pair      *)
(* (c0, c1) with both components below n^2, a plaintext is returned only   *)
(* if Dec(c1) = (xi * Dec(c0)) mod n, and then it is Dec(c0); whenever     *)
(* that equality does not hold the result is Err(KeaImVerFailed).          *)
C7_KeaGated ==
    (/\ KeaDecrypted
     /\ ct.val[1] < kp.public_key.n_squared
     /\ ct.val[2] < kp.public_key.n_squared)
        => /\ IsOk(kea_dec) =>
                /\ ImageHolds
                /\ kea_dec = p_decrypt(ct.val[1], kp.public_key, kp.secret_key)
           /\ ~ImageHolds => IsErr(kea_dec, "KeaImVerFailed")

(* C8 as claimed: after the second component of the KEA ciphertext of any  *)
(* m < n, under any KEA secret xi of paillier_kea_keygen, is replaced by a *)
(* fresh Enc(1), the decryption fails with KeaImVerFailed.  Stated for     *)
(* r0 coprime to n, where c0 is a Paillier ciphertext of m.                *)
C8_TamperAlwaysDetected ==
    (pc = "kea_tamper_decrypted" /\ gcd(r0.val, kp.public_key.n) = 1)
        => IsErr(kea_dec, "KeaImVerFailed")

(* C8 amended: after the replacement the decryption fails with             *)
(* KeaImVerFailed exactly when Dec(c0) is a value d with (xi * d) mod n    *)
(* different from 1, and d = m whenever r0 is coprime to n; when           *)
(* (xi * d) mod n = 1 the forged pair passes and Ok(d) is returned; when   *)
(* p_decrypt aborts on c0 (r0 = 0) so does the decryption.                 *)
C8_TamperDetectedUnlessImage ==
    pc = "kea_tamper_decrypted" =>
        LET n == kp.public_key.n
            d0 == p_decrypt(ct.val[1], kp.public_key, kp.secret_key)
        IN  /\ gcd(r0.val, n) = 1 => d0 = m1
            /\ IF ~IsOk(d0) THEN kea_dec = Panic /\ r0.val = 0
               ELSE IF (kea.val.psy * d0.val) % n = 1 THEN kea_dec = d0
               ELSE IsErr(kea_dec, "KeaImVerFailed")

(* A tampered ciphertext of m >= 2 under xi >= 2 and non-trivial r0 that   *)
(* is rejected.                                                            *)
C8_Witness ==
    /\ pc = "kea_tamper_decrypted"
    /\ gcd(r0.val, kp.public_key.n) = 1 /\ r0.val > 1
    /\ m1.val >= 2 /\ kea.val.psy >= 2
    /\ IsErr(kea_dec, "KeaImVerFailed")

(* C5: PSI correctness.  After the four phases have run on any two         *)
(* identifier lists under two key pairs with distinct moduli, both counts  *)
(* equal the number of positions active in both tables, for every choice   *)
(* of masks and randomness.                                                *)
C5_PsiCorrect ==
    pc = "psi_counted" =>
        /\ count1 = Ok(Cardinality(table1 \cap table2))
        /\ count2 = Ok(Cardinality(table1 \cap table2))

(* C9: the secret key never leaves the registry.  Once a call on the       *)
(* registry has returned, its caller holds no clone of lambda or mu.       *)
C9_SecretKeyStaysInside ==
    \A t \in Threads :
        (tpc[t] = "idle" /\ call[t] # None /\ call[t].op = "with_secret_key"
            /\ IsOk(ret[t]))
        => ret[t].val.clone_of = "nothing"

(* C10: registry snapshot consistency.  Writers exclude each other and     *)
(* every reader; while a read is in progress the slot is whole and still   *)
(* holds the fields the reader has read; and the PublicKey a read returns  *)
(* is that of one key pair.                                                *)
C10_SnapshotConsistency ==
    /\ Cardinality(lock.writers) <= 1
    /\ lock.writers # {} => lock.readers = {}
    /\ \A t \in lock.readers :
        /\ inner.keypair = None \/ inner.keypair \in {Ok(k) : k \in RegKeyPairs}
        /\ inner.kea = None \/ inner.kea \in {Ok(k) : k \in RegKeas}
        /\ tpc[t] = "reading" =>
            IF call[t].op = "public_key"
            THEN IsOk(inner.keypair) /\ inner.keypair.val.public_key.n = seen[t].n
            ELSE IF call[t].op = "with_secret_key"
            THEN IsOk(inner.keypair)
                 /\ inner.keypair.val.secret_key.lambda = seen[t].lambda
            ELSE IsOk(inner.kea) /\ inner.kea.val.pk = seen[t].pk
    /\ \A t \in Threads :
        (tpc[t] = "idle" /\ call[t] # None /\ call[t].op = "public_key"
            /\ IsOk(ret[t]))
        => ret[t].val \in {k.public_key : k \in RegKeyPairs}

(* Two threads reading at once, one of them in the middle of the closure   *)
(* of with_secret_key, on the key pair that replaced an earlier one.       *)
C10_Witness ==
    \E t, u \in Threads :
        /\ t # u
        /\ {t, u} \subseteq lock.readers
        /\ tpc[t] = "reading" /\ call[t].op = "with_secret_key"
        /\ tpc[u] = "reading" /\ call[u].op = "public_key"
        /\ seen[t].lambda = 30 /\ seen[u].n = 77

(* C11: reads of an empty slot.  Whenever a read call leaves its guarded   *)
(* state while the Paillier slot is empty, public_key and with_secret_key  *)
(* return Err(NoPaillierKey) and has_keypair returns false; while the KEA  *)
(* slot is empty, with_kea returns Err(NoKeaKey) and has_kea returns       *)
(* false; the call returns at once, without the closure reading a field.   *)
C11_EmptySlotErrors ==
    [][\A t \in Threads :
        (tpc[t] = "guarded" /\ tpc'[t] # "guarded") =>
            /\ (call[t].op \in {"public_key", "with_secret_key"}
                    /\ inner.keypair = None)
                => (ret'[t] = Err("NoPaillierKey") /\ tpc'[t] = "idle"
                        /\ seen'[t] = None)
            /\ (call[t].op = "has_keypair" /\ inner.keypair = None)
                => (ret'[t] = Ok(FALSE) /\ tpc'[t] = "idle")
            /\ (call[t].op = "with_kea" /\ inner.kea = None)
                => (ret'[t] = Err("NoKeaKey") /\ tpc'[t] = "idle"
                        /\ seen'[t] = None)
            /\ (call[t].op = "has_kea" /\ inner.kea = None)
                => (ret'[t] = Ok(FALSE) /\ tpc'[t] = "idle")]_vars

(* with_kea has failed on the empty KEA slot, and with_secret_key on the   *)
(* Paillier slot that the other thread's clear_keypair emptied.            *)
C11_Witness ==
    \E t, u \in Threads :
        /\ t # u
        /\ inner = [keypair |-> None, kea |-> None]
        /\ tpc[u] = "idle" /\ call[u] # None /\ call[u].op = "clear_keypair"
        /\ ret[u] = Ok(<<>>)
        /\ tpc[t] = "idle" /\ call[t] # None /\ call[t].op = "with_secret_key"
        /\ ret[t] = Err("NoPaillierKey")

(* C12: set then get.  When set_keypair(kp) returns Ok the Paillier slot   *)
(* holds kp; the slot changes only in the hands of a set_keypair or        *)
(* clear_keypair that holds the write guard; and every read that returns   *)
(* while the slot is full answers from the slot: has_keypair is true,      *)
(* public_key is the PublicKey of the slot (n, g, n_squared), and the      *)
(* closure of with_secret_key is run on the SecretKey of the slot.  Hence  *)
(* reads return the key pair of the last set_keypair.                      *)
C12_LastWriteWins ==
    [][/\ \A t \in Threads :
            /\ (tpc[t] = "store" /\ call[t].op = "set_keypair" /\ tpc'[t] = "idle")
                => (inner'.keypair = Ok(call[t].arg) /\ ret'[t] = Ok(<<>>))
            /\ (tpc[t] \in {"guarded", "reading"} /\ tpc'[t] = "idle"
                    /\ call[t].op \in {"has_keypair", "public_key", "with_secret_key"}
                    /\ inner.keypair # None)
                => /\ inner.keypair \in {Ok(k) : k \in RegKeyPairs}
                   /\ inner'.keypair = inner.keypair
                   /\ call[t].op = "has_keypair" => ret'[t] = Ok(TRUE)
                   /\ call[t].op = "public_key"
                        => ret'[t] = Ok(inner.keypair.val.public_key)
                   /\ call[t].op = "with_secret_key"
                        => ret'[t] = apply_closure(call[t].arg.f,
                                                  inner.keypair.val.secret_key,
                                                  call[t].arg)
       /\ inner'.keypair # inner.keypair
            => \E t \in lock.writers :
                  call[t].op \in {"set_keypair", "clear_keypair"}]_vars

(* One thread's set_keypair of the key pair of n = 35 has returned, the    *)
(* other thread has since installed the key pair of n = 77 and read back   *)
(* its public key.                                                         *)
C12_Witness ==
    \E t, u \in Threads :
        /\ t # u
        /\ tpc[t] = "idle" /\ call[t] # None /\ call[t].op = "set_keypair"
        /\ call[t].arg.public_key.n = 35 /\ ret[t] = Ok(<<>>)
        /\ inner.keypair # None /\ inner.keypair.val.public_key.n = 77
        /\ tpc[u] = "idle" /\ call[u] # None /\ call[u].op = "public_key"
        /\ ret[u] = Ok(inner.keypair.val.public_key)

(* C13: concurrent readers make progress.  With a key pair set and only    *)
(* public_key callers, no thread is ever blocked (an idle thread can take  *)
(* the read guard, a thread holding it can go on), so no state is a        *)
(* deadlock; no call returns an error; and every thread keeps calling and  *)
(* every call that has its guard eventually returns Ok.                    *)
C13_ReadersProgress ==
    /\ [](\A t \in Readers :
            /\ tpc[t] = "idle" => read_ready(lock)
            /\ tpc[t] \in {"guarded", "reading"} => inner.keypair # None
            /\ ret[t] = None \/ IsOk(ret[t]))
    /\ \A t \in Readers :
            /\ []<>(tpc[t] = "guarded")
            /\ (tpc[t] = "guarded") ~> (tpc[t] = "idle" /\ IsOk(ret[t]))

(* Every thread holds the read guard at the same time, one of them in the  *)
(* middle of its clone and another about to start a later call's clone.    *)
C13_Witness ==
    /\ lock.readers = Readers
    /\ \E t, u \in Readers :
        /\ tpc[t] = "reading" /\ tpc[u] = "guarded"
        /\ \A v \in Readers : v # t => tpc[v] = "guarded"

(* C14: non-blocking probes.  has_keypair and has_kea start with           *)
(* self.read(), the step BeginRead; a thread free to call them never has   *)
(* to wait for that step, whatever guards the other threads hold.          *)
C14_ProbesNeverWait ==
    \A t \in Threads : tpc[t] = "idle" => read_ready(lock)

(* C15: p_decrypt is total.  For every c >= 0 the call returns, never      *)
(* panics, and the result is Err(CiphertextOutOfRange) exactly when        *)
(* c >= n^2.                                                               *)
C15_DecryptTotal ==
    pc = "dec_done" =>
        /\ dec.tag \in {"Ok", "Err"}
        /\ IsErr(dec, "CiphertextOutOfRange") <=> c1.val >= kp.public_key.n_squared

(* C16: p_encrypt range check.  p_encrypt(m, pk) returns                   *)
(* Err(MessageOutOfRange) exactly when m >= n; for m < n it returns Ok(c)  *)
(* with c = (g^m * r^n) mod n^2 for some 1 <= r < n coprime to n, and      *)
(* 0 < c < n^2.                                                            *)
C16_EncryptRange ==
    pc = "encrypted" =>
        LET n == kp.public_key.n
            n2 == kp.public_key.n_squared
        IN  /\ IsErr(c1, "MessageOutOfRange") <=> m1.val >= n
            /\ m1.val < n =>
                /\ IsOk(c1)
                /\ 0 < c1.val /\ c1.val < n2
                /\ \E r \in 1..(n - 1) :
                      /\ gcd(r, n) = 1
                      /\ c1.val = (modpow(kp.public_key.g, m1.val, n2)
                                      * modpow(r, n, n2)) % n2

(* The encryption of m = 0 under an r other than 1.                        *)
C16_Witness ==
    /\ pc = "encrypted"
    /\ m1.val = 0
    /\ IsOk(c1) /\ c1.val > 1

(* C17: minimum key size.  For nbits < 128 the first generate_safe_prime   *)
(* call, and with it p_keygen, returns Err(KeySizeTooSmall) naming nbits   *)
(* and the minimum, before any candidate is sampled, and no prime is       *)
(* returned; for nbits >= 128 neither call returns KeySizeTooSmall.        *)
C17_KeySizeTooSmall ==
    pc # "kg_start" =>
        IF nbits < 128
        THEN /\ pc = "kg_failed"
             /\ safe_p = Err(KeySizeTooSmall(nbits, 128))
             /\ kp = safe_p
             /\ sophie_germain = None /\ safe_q = None /\ n_pq = None
        ELSE /\ pc \in {"kg_p", "kg_q", "kg_n"}
             /\ IsOk(safe_p)
             /\ pc \in {"kg_q", "kg_n"} => IsOk(safe_q)
             /\ kp = None

(* The largest refused size.                                               *)
C17_Witness ==
    /\ pc = "kg_failed"
    /\ nbits = 127
    /\ kp = Err(KeySizeTooSmall(127, 128))

(* C18: safe-prime bit length.  Every candidate p' has nbits-1 bits, the   *)
(* p = 2p'+1 that generate_safe_prime returns has exactly nbits bits, and  *)
(* the product of two such primes has exactly 2*nbits bits.                *)
C18_SafePrimeBits ==
    /\ IsOk(sophie_germain) => big_bits(sophie_germain.val) = nbits - 1
    /\ (safe_p # None /\ IsOk(safe_p)) => big_bits(safe_p.val) = nbits
    /\ (safe_q # None /\ IsOk(safe_q)) => big_bits(safe_q.val) = nbits
    /\ pc = "kg_n" => big_bits(n_pq.val) = 2 * nbits

(* The smallest p a 128-bit request can yield, times another prime.        *)
C18_Witness ==
    /\ pc = "kg_n"
    /\ nbits = 128
    /\ safe_p.val = {0, 1, 126, 127}
    /\ big_bits(n_pq.val) = 256

(* The three public fields of the file parse.                              *)
PublicFieldsParse ==
    /\ IsOk(hex_to_biguint(file.json.public_key.n))
    /\ IsOk(hex_to_biguint(file.json.public_key.g))
    /\ IsOk(hex_to_biguint(file.json.public_key.n_squared))

(* The n_squared field of the file is the square of its n field.           *)
FileCoherent ==
    hex_to_biguint(file.json.public_key.n_squared).val
        = big_mul(hex_to_biguint(file.json.public_key.n).val,
                  hex_to_biguint(file.json.public_key.n).val)

(* C19: key coherence on load.  When the public fields parse and           *)
(* n_squared # n*n, json_to_public_key and json_to_keypair return          *)
(* Err(KeyCoherenceError), the loaders of a file of accepted size return   *)
(* the I/O error that carries it, and no load returns a key; when          *)
(* n_squared = n*n the coherence test passes: json_to_public_key returns   *)
(* the PublicKey and no load reports KeyCoherenceError.                    *)
C19_KeyCoherence ==
    (pc \in {"file_json_pk", "file_json_kp", "file_load_pk", "file_load_kp"}
        /\ PublicFieldsParse) =>
        IF FileCoherent
        THEN /\ loaded # Err(KeyCoherenceError)
             /\ loaded # InvalidData(KeyCoherenceError)
             /\ pc = "file_json_pk" =>
                    loaded = Ok([n |-> hex_to_biguint(file.json.public_key.n).val,
                                 g |-> hex_to_biguint(file.json.public_key.g).val,
                                 n_squared |-> hex_to_biguint(file.json.public_key.n_squared).val])
        ELSE /\ ~IsOk(loaded)
             /\ pc \in {"file_json_pk", "file_json_kp"} => loaded = Err(KeyCoherenceError)
             /\ (pc \in {"file_load_pk", "file_load_kp"} /\ file.len <= 32768)
                    => loaded = InvalidData(KeyCoherenceError)

(* The file with n = F and n_squared = E2, refused by load_keypair_json.   *)
C19_Witness ==
    /\ pc = "file_load_kp"
    /\ file.json.public_key.n = <<"F">>
    /\ file.json.public_key.n_squared = <<"E", "2">>
    /\ file.json.secret_key.lambda = <<"4">>
    /\ loaded = InvalidData(KeyCoherenceError)

(* The fields of the file, by name.                                        *)
FileField(f) ==
    IF f \in {"n", "g", "n_squared"} THEN file.json.public_key[f]
    ELSE file.json.secret_key[f]

(* C20: hex field bound.  hex_to_biguint returns HexFieldTooLong, naming   *)
(* the length and the maximum 3072, exactly for the fields longer than     *)
(* 3072 characters; a field of at most 3072 hexadecimal digits, and at     *)
(* least one, is converted; and json_to_keypair fails whenever one of the  *)
(* five fields is longer than 3072 characters.                             *)
C20_HexFieldBound ==
    /\ pc = "file_hex" =>
          \A f \in {"n", "g", "n_squared", "lambda", "mu"} :
            /\ Len(FileField(f)) > 3072
                  <=> hex[f] = Err(HexFieldTooLong(Len(FileField(f)), 3072))
            /\ (Len(FileField(f)) \in 1..3072
                    /\ \A i \in 1..Len(FileField(f)) :
                          FileField(f)[i] \in {HexUpper[d] : d \in 1..16}
                                              \cup {HexLower[d] : d \in 1..16})
                  => IsOk(hex[f])
    /\ pc = "file_json_kp" =>
          ((\E f \in {"n", "g", "n_squared", "lambda", "mu"} : Len(FileField(f)) > 3072)
              => ~IsOk(loaded))

(* A field of 3072 digits F has been converted to the integer 2^12288 - 1. *)
C20_Witness ==
    /\ pc = "file_hex"
    /\ Len(file.json.secret_key.mu) = 3072
    /\ hex.mu = Ok(0..12287)

StemsFrom(triple, pos, ft_a, ft_b, pk) ==
    \E r \in {r \in Units(pk.n) : r <= PsiMaxRand} :
        cf_mul(ft_a[pos], ft_b[pos], r, pk) = Ok(triple)

(* The k-th triple of each returned list is the product at the k-th        *)
(* position the server processed.                                          *)
InProcessingOrder(out, common) ==
    \A k \in DOMAIN common :
        /\ StemsFrom(out[1][k], common[k], bd1.val.under_pk1.ft_by_pos,
                     bd2.val.under_pk1.ft_by_pos, kp1.public_key)
        /\ StemsFrom(out[2][k], common[k], bd1.val.under_pk2.ft_by_pos,
                     bd2.val.under_pk2.ft_by_pos, kp2.public_key)

(* phase3_server_compute can return lists from this state, on some order   *)
(* of the common positions, that satisfy Q.                                *)
Phase3CanReturn(Q(_, _)) ==
    \E common \in IterationOrders(common_positions(table1, table2)) :
    \E rs1 \in PsiMulRand(common, kp1.public_key.n),
       rs2 \in PsiMulRand(common, kp2.public_key.n) :
        /\ IsOk(phase3_server_compute(bd1.val, bd2.val, kp1, kp2, common, rs1, rs2))
        /\ Q(phase3_server_compute(bd1.val, bd2.val, kp1, kp2, common, rs1, rs2).val,
             common)

(* Two common positions whose products under pk1 cannot be mistaken for    *)
(* each other, whatever the randomness of cf_mul.                          *)
DistinctProducts ==
    \E pos \in common_positions(table1, table2) :
    \E other \in common_positions(table1, table2) \ {pos} :
    \A r \in {r \in Units(kp1.public_key.n) : r <= PsiMaxRand} :
        /\ IsOk(cf_mul(bd1.val.under_pk1.ft_by_pos[pos],
                       bd2.val.under_pk1.ft_by_pos[pos], r, kp1.public_key))
        /\ ~StemsFrom(cf_mul(bd1.val.under_pk1.ft_by_pos[pos],
                             bd2.val.under_pk1.ft_by_pos[pos], r, kp1.public_key).val,
                      other, bd1.val.under_pk1.ft_by_pos,
                      bd2.val.under_pk1.ft_by_pos, kp1.public_key)

ReturnsLists(out, common) == TRUE
OutOfProcessingOrder(out, common) == ~InProcessingOrder(out, common)

(* C22: shuffled result lists.  Wherever phase3_server_compute can return  *)
(* lists of two or more distinguishable triples, it can return them in an  *)
(* order that is                                                           *)
(* not the order in which the common positions were processed: some k-th   *)
(* triple of L1 or of L2 is not the product at the k-th processed          *)
(* position.                                                               *)
C22_ShuffledLists ==
    (/\ pc = "psi_ft2" /\ IsOk(bd1) /\ IsOk(bd2)
     /\ Cardinality(common_positions(table1, table2)) >= 2
     /\ DistinctProducts
     /\ Phase3CanReturn(ReturnsLists))
        => Phase3CanReturn(OutOfProcessingOrder)

(* C23: secret keys stay local.  No party is handed a key argument that    *)
(* belongs to another party and carries a secret key: the server and the   *)
(* peer database receive public keys, position sets and bundles only, and  *)
(* a secret key reaches only phase 4 run by its owner.                     *)
C23_SecretKeysStayLocal ==
    \A c \in DOMAIN CallsOfStep :
    \A a \in DOMAIN CallsOfStep[c].args :
        (/\ CallsOfStep[c].args[a].kind = "key"
         /\ CallsOfStep[c].args[a].owner # CallsOfStep[c].party)
            => "secret_key" \notin DOMAIN CallsOfStep[c].args[a].val

(* C24: zeroization on destruction.  No released allocation still holds    *)
(* secret digits: the buffers of lambda, mu and psy hold zeros when they   *)
(* are released.                                                           *)
C24_ReleasedBuffersAreZero ==
    \A b \in Buffers : heap[b].state = "released" => heap[b].digits = 0

(* C25: mod_inverse is total and exact.  For a >= 0 and n >= 1 it returns  *)
(* NoModularInverse exactly when gcd(a, n) # 1, and otherwise Ok(x) with   *)
(* 0 <= x < n and a * x = 1 (mod n); it never returns NegativeConversion   *)
(* and never panics.                                                       *)
C25_ModInverseExact ==
    pc = "inv_done" =>
        IF gcd(mi_a, mi_n) # 1 THEN mi_result = Err("NoModularInverse")
        ELSE /\ IsOk(mi_result)
             /\ 0 <= mi_result.val /\ mi_result.val < mi_n
             /\ (mi_a * mi_result.val) % mi_n = 1 % mi_n

(* An inverse whose Bezout coefficient was negative (3 * 5 = 1 mod 7 from  *)
(* the coefficient -2), and the inverse modulo 1.                          *)
C25_Witness ==
    /\ pc = "inv_done" /\ mi_a = 3 /\ mi_n = 7
    /\ extended_gcd(mi_a, mi_n)[2] < 0
    /\ mi_result = Ok(5)

(* (x * y) mod m and (b ^ e) mod m by doubling, every intermediate value   *)
(* below 2 m.  Each half result is a bound variable, hence computed once.  *)
TheOnly(S) == CHOOSE v \in S : TRUE

RECURSIVE MulMod(_, _, _)
MulMod(x, y, m) ==
    IF y = 0 THEN 0
    ELSE TheOnly({(((2 * half) % m) + (IF y % 2 = 1 THEN x % m ELSE 0)) % m
                    : half \in {MulMod(x, y \div 2, m)}})

RECURSIVE PowMod(_, _, _)
PowMod(b, e, m) ==
    IF e = 0 THEN 1 % m
    ELSE TheOnly({IF e % 2 = 1 THEN MulMod(MulMod(half, half, m), b % m, m)
                               ELSE MulMod(half, half, m)
                    : half \in {PowMod(b, e \div 2, m)}})

(* l is the least common multiple of a and b.                              *)
IsLcm(l, a, b) ==
    /\ l > 0 /\ l % a = 0 /\ l % b = 0
    /\ \A k \in 1..(l - 1) : k % a # 0 \/ k % b # 0

(* C26: key-pair invariants.  Every key pair p_keygen returns has          *)
(* n = p * q with p # q, n_squared = n * n, g = n + 1,                     *)
(* lambda = lcm(p - 1, q - 1) and mu * L(g^lambda mod n^2) = 1 (mod n);    *)
(* the shortcut (1 + lambda * n) mod n^2 equals (n + 1)^lambda mod n^2.    *)
C26_KeyPairInvariants ==
    (pc = "keygen_done" /\ IsOk(kp)) =>
        /\ safe_p.val # safe_q.val
        /\ kp.val.public_key.n = safe_p.val * safe_q.val
        /\ kp.val.public_key.n_squared = kp.val.public_key.n * kp.val.public_key.n
        /\ kp.val.public_key.g = kp.val.public_key.n + 1
        /\ IsLcm(kp.val.secret_key.lambda, safe_p.val - 1, safe_q.val - 1)
        /\ (kp.val.secret_key.mu
              * ((PowMod(kp.val.public_key.g, kp.val.secret_key.lambda,
                         kp.val.public_key.n_squared) - 1)
                   \div kp.val.public_key.n)) % kp.val.public_key.n = 1
        /\ (1 + kp.val.secret_key.lambda * kp.val.public_key.n)
                % kp.val.public_key.n_squared
             = PowMod(kp.val.public_key.n + 1, kp.val.secret_key.lambda,
                      kp.val.public_key.n_squared)

(* p_keygen has returned the key pair of the two largest primes,           *)
(* n = 29893 and lambda = 14774.                                           *)
C26_Witness ==
    /\ pc = "keygen_done" /\ IsOk(kp)
    /\ safe_p.val = 179 /\ safe_q.val = 167
    /\ kp.val.public_key.n = 29893
    /\ kp.val.secret_key.lambda = 14774

(* A bundle made for table: both FtBundles have an entry exactly at the    *)
(* active positions, each the first form of plaintext 1 under its key.     *)
BundleMatches(bundle, table) ==
    /\ DOMAIN bundle.under_pk1.ft_by_pos = table
    /\ DOMAIN bundle.under_pk2.ft_by_pos = table
    /\ \A pos \in table :
          /\ cf_add_dec(bundle.under_pk1.ft_by_pos[pos],
                        kp1.public_key, kp1.secret_key) = Ok(1)
          /\ cf_add_dec(bundle.under_pk2.ft_by_pos[pos],
                        kp2.public_key, kp2.secret_key) = Ok(1)

C28_SameKeyPair ==
    \A t \in Threads :
        (/\ tpc[t] = "reading"
         /\ call[t].op = "with_secret_key"
         /\ call[t].arg.f = "p_decrypt")
            => call[t].arg.pk = inner.keypair.val.public_key

(* The integer sum of the Dec2 values of the triples k..Len(cts).          *)
RECURSIVE SumOfDec2(_, _, _)
SumOfDec2(cts, k, keypair) ==
    IF k > Len(cts) THEN 0
    ELSE cf_mul_dec(cts[k], keypair.public_key, keypair.secret_key).val
         + SumOfDec2(cts, k + 1, keypair)

(* C29: the count is the sum.  For every list of triples with components   *)
(* below n^2, phase4_decrypt_and_count returns the integer sum of their    *)
(* Dec2 values, also when the values are not 0 or 1 and when the sum       *)
(* reaches the radix of the u64 digits.                                    *)
C29_CountIsSum ==
    (/\ pc = "count_done"
     /\ \A k \in DOMAIN agg_bd1.val : \A i \in 1..3 :
           agg_bd1.val[k][i] < kp1.public_key.n_squared)
        => count1 = Ok(SumOfDec2(agg_bd1.val, 1, kp1))

(* C30: registry frame conditions.  No step of set_keypair or              *)
(* clear_keypair changes the KEA slot, no step of set_kea or clear_kea     *)
(* changes the Paillier slot, and no step of public_key, with_secret_key,  *)
(* with_kea, has_keypair or has_kea changes either slot, whatever the call *)
(* returns.                                                                *)
C30_RegistryFrame ==
    [][\A t \in Threads :
          tpc'[t] # tpc[t] =>
              /\ call'[t].op \in {"set_keypair", "clear_keypair"}
                    => inner'.kea = inner.kea
              /\ call'[t].op \in {"set_kea", "clear_kea"}
                    => inner'.keypair = inner.keypair
              /\ call'[t].op \in {"public_key", "with_secret_key", "with_kea",
                                  "has_keypair", "has_kea"}
                    => inner' = inner]_vars

(* clear_keypair has returned, the Paillier slot is empty and the KEA slot *)
(* still holds its key, psy included.                                      *)
C30_Witness ==
    \E t \in Threads :
        /\ tpc[t] = "idle" /\ call[t] # None /\ call[t].op = "clear_keypair"
        /\ ret[t] = Ok(<<>>)
        /\ inner.keypair = None
        /\ IsOk(inner.kea) /\ inner.kea.val.psy # 0

=============================================================================
